---- MODULE Spec2Model ----
(***************************************************************************)
(* A model of the printer status collection engine (core.py, app.py) and   *)
(* of the pipeline around it (connectivity.py, app_html.py, server.py,     *)
(* run_all.py).                                                            *)
(*                                                                         *)
(* Page bodies are modelled by the features the code reads from them.      *)
(* Text whose characters the code inspects (toner values, tray names,      *)
(* integers in JSON strings) is a sequence of one-character strings, so    *)
(* that str.isdigit(), int(), the regular expressions and the "%" suffix   *)
(* are computed, not assumed.  Paper levels and error sentences, which the *)
(* code only compares as wholes, are TLA+ strings.                         *)
(***************************************************************************)
EXTENDS Integers, Sequences, FiniteSets, TLC

VARIABLES
    \* ---- collect_all (core.py) ----
    printers,   \* the input list of Printer records
    scen,       \* per future: the network behaviour its task meets
    fut,        \* per future: "running" or "done"
    outcome,    \* per future: what the task returned or raised (once done)
    yielded,    \* futures already handed out by as_completed
    rows,       \* the list collect_all builds
    rowFut,     \* history: the future each row was built from
    cpc,        \* collect_all's position
    \* ---- fetch_best_status_html (core.py), one call ----
    rstate,     \* per candidate: "idle", "running" or "done"
    resp,       \* per candidate: the response its request ended with
    observed,   \* candidates in the order as_completed yielded them
    last_ok,    \* the local last_ok
    matched,    \* TRUE once the loop hit "return html"
    ret,        \* the value the function returns
    rpc,        \* the function's position
    \* ---- fetch_printer_status on one page body ----
    html,       \* the page body handed to the extractors
    rec,        \* what fetch_printer_status returned or raised
    spc,        \* "start" or "done"
    \* ---- fetch_printer_status, request by request ----
    tpc,        \* the task's position
    reqs,       \* the requests issued so far, in order
    lret,       \* what login_if_needed returned
    \* ---- filter_up_printers (app.py) ----
    conn,       \* what try_load_json gives for the connectivity file
    submitted,  \* the list filter_up_printers returns
    fpc,        \* "start" or "done"
    \* ---- run_check (server.py), per request ----
    pstep,      \* the index in cmds of the step to run next
    pstate,     \* "run", "respond" or "done"
    logs,       \* the local logs
    okflag,     \* the local ok
    answer,     \* the response sent
    \* ---- main (app.py) ----
    results_map,\* the local results_map: outcome per base_url
    \* ---- _probe_once (connectivity.py), one call ----
    purl,       \* the url argument
    pnet,       \* per path: what a GET of its target ends with
    tried,      \* the targets requested so far
    verdict,    \* the tuple returned
    \* ---- build_html (app_html.py), the Errors section ----
    html_rows,  \* the rows argument of build_html
    html_errors,\* the local errors: the lines of the Errors section
    hpc,        \* "start" or "done"
    \* ---- save_json (app.py) in overlapping runs ----
    fs_dir,     \* the directory: per file name its inode, 0 if there is no such file
    fs_data,    \* per inode: the chunks it holds
    wfd,        \* per run: the inode and offset of its open file f
    wpc,        \* per run: the position in save_json
    \* ---- main (run_all.py), one run ----
    files,      \* the working directory: per file name what the file holds
    json_in,    \* the local json_in
    apc         \* the position in main

collectVars == <<printers, scen, fut, outcome, yielded, rows, rowFut, cpc>>
raceVars    == <<rstate, resp, observed, last_ok, matched, ret, rpc>>
statusVars  == <<html, rec, spc>>
taskVars    == <<tpc, reqs, lret>>
filterVars  == <<conn, submitted, fpc>>
pipeVars    == <<pstep, pstate, logs, okflag, answer>>
mainVars    == <<results_map>>
probeVars   == <<purl, pnet, tried, verdict>>
reportVars  == <<html_rows, html_errors, hpc>>
saveVars    == <<fs_dir, fs_data, wfd, wpc>>
runVars     == <<files, json_in, apc>>
vars        == <<collectVars, raceVars, statusVars, taskVars, filterVars, pipeVars, mainVars, probeVars, reportVars, saveVars, runVars>>

-----------------------------------------------------------------------------
(* Text                                                                    *)

Digits == {"0", "1", "2", "3", "4", "5", "6", "7", "8", "9"}

DigitVal(c) ==
    CASE c = "0" -> 0 [] c = "1" -> 1 [] c = "2" -> 2 [] c = "3" -> 3
      [] c = "4" -> 4 [] c = "5" -> 5 [] c = "6" -> 6 [] c = "7" -> 7
      [] c = "8" -> 8 [] c = "9" -> 9

DigitChar(n) ==
    CASE n = 0 -> "0" [] n = 1 -> "1" [] n = 2 -> "2" [] n = 3 -> "3"
      [] n = 4 -> "4" [] n = 5 -> "5" [] n = 6 -> "6" [] n = 7 -> "7"
      [] n = 8 -> "8" [] n = 9 -> "9"

\* str.isdigit(): non-empty and every character a digit
IsDigitStr(s) == Len(s) > 0 /\ \A i \in 1..Len(s) : s[i] \in Digits

RECURSIVE DecVal(_)
DecVal(s) ==
    IF s = <<>> THEN 0
    ELSE 10 * DecVal(SubSeq(s, 1, Len(s) - 1)) + DigitVal(s[Len(s)])

\* str(n) of an integer
RECURSIVE NatText(_)
NatText(n) == IF n < 10 THEN <<DigitChar(n)>> ELSE NatText(n \div 10) \o <<DigitChar(n % 10)>>

IntText(n) == IF n < 0 THEN <<"-">> \o NatText(0 - n) ELSE NatText(n)

\* str.strip() of blanks
RECURSIVE Strip(_)
Strip(s) ==
    IF s = <<>> THEN s
    ELSE IF Head(s) = " " THEN Strip(Tail(s))
    ELSE IF s[Len(s)] = " " THEN Strip(SubSeq(s, 1, Len(s) - 1))
    ELSE s

\* int(text): surrounding blanks and one sign are accepted, anything else
\* is a ValueError
PyInt(s) ==
    LET t == Strip(s)
        signed == Len(t) > 0 /\ t[1] \in {"-", "+"}
        body == IF signed THEN Tail(t) ELSE t
    IN  IF IsDigitStr(body)
        THEN [ok |-> TRUE, v |-> IF signed /\ t[1] = "-" THEN 0 - DecVal(body) ELSE DecVal(body)]
        ELSE [ok |-> FALSE, v |-> 0]

Min(a, b) == IF a <= b THEN a ELSE b
Max(a, b) == IF a >= b THEN a ELSE b

-----------------------------------------------------------------------------
(* Constants of core.py                                                    *)

DRAWERS == <<"Multi-Purpose Tray", "Drawer 1", "Drawer 2", "Drawer 3", "Drawer 4">>
TONERS  == <<"Cyan", "Magenta", "Yellow", "Black">>

DrawerSet == {DRAWERS[i] : i \in 1..Len(DRAWERS)}
TonerSet  == {TONERS[i] : i \in 1..Len(TONERS)}

\* the sentinel, as a toner value (text) and as a paper value
NA      == <<"N", "/", "A">>
PaperNA == "N/A"

ICON_MAP == [i \in {"00", "04", "07", "10"} |->
    CASE i = "00" -> "Empty" [] i = "04" -> "1 Bar" [] i = "07" -> "2 Bar" [] i = "10" -> "3 Bar"]

\* BAR_MAP.get(str(bars), "N/A")
BAR_MAP(bars) ==
    CASE bars = 0 -> "Empty" [] bars = 1 -> "1 Bar" [] bars = 2 -> "2 Bar" [] bars = 3 -> "3 Bar"
      [] OTHER -> PaperNA

\* the key of tonerVolInfo read for each colorant (parse_toner)
TonerKey(c) ==
    CASE c = "Cyan" -> "tonerCVol" [] c = "Magenta" -> "tonerMVol"
      [] c = "Yellow" -> "tonerYVol" [] c = "Black" -> "tonerKVol"

TonerKeys == {TonerKey(c) : c \in TonerSet}

-----------------------------------------------------------------------------
(* Page bodies                                                             *)
(*                                                                         *)
(* A body is the record of what the code can read from it:                 *)
(*   blank     the body is the empty string                                *)
(*   login     it holds "<title>Login</title>" or 'name="login"'           *)
(*   sigText   it holds "Error Information" or "Consumables"               *)
(*   tonerVar  the text "var tonerVolInfo = {...};", as key -> quoted value *)
(*   tonerRows per colorant named by a table cell: the alt texts of the    *)
(*             images of its row, in document order                        *)
(*   cstVar    the text "var cstInfo = {...};": whether json.loads takes   *)
(*             it, and its entries                                         *)
(*   iconRows  the table rows holding a pap_mXX.gif icon and a label cell  *)
(*   form      the action of <form name="login"> and the value of          *)
(*             <input name="uri">, None where the page has none            *)
(*   body      the sentences of the visible text                           *)

None == "(None)"

NoVar == [present |-> FALSE]

NoForm == [action |-> None, uri |-> None]

TonerVar(fields) == [present |-> TRUE, fields |-> fields]

CstVar(valid, items) == [present |-> TRUE, valid |-> valid, items |-> items]

EmptyMap == [k \in {} |-> NA]

BlankPage ==
    [blank |-> TRUE, login |-> FALSE, sigText |-> FALSE, tonerVar |-> NoVar,
     tonerRows |-> EmptyMap, cstVar |-> NoVar, iconRows |-> <<>>, body |-> <<>>,
     form |-> NoForm]

\* a non-empty body with none of the features
PlainPage == [BlankPage EXCEPT !.blank = FALSE]

\* core.py _is_login_page
IsLoginPage(page) == page.login

\* any(k in html for k in ("tonerVolInfo", "cstInfo", "Error Information", "Consumables"))
HasSignature(page) == page.tonerVar.present \/ page.cstVar.present \/ page.sigText

-----------------------------------------------------------------------------
(* parse_toner                                                             *)

\* re.search(r"\d+%", alt)
HasDigitsPct(s) == \E i \in 1..(Len(s) - 1) : s[i] \in Digits /\ s[i + 1] = "%"

\* re.search(r"(\d+)", alt).group(1): the first maximal run of digits
FirstDigitRun(s) ==
    LET starts == {i \in 1..Len(s) : s[i] \in Digits}
        b == CHOOSE i \in starts : \A j \in starts : i <= j
        ends == {j \in b..Len(s) : \A k \in b..j : s[k] \in Digits}
        e == CHOOSE j \in ends : \A k \in ends : k <= j
    IN  SubSeq(s, b, e)

\* lines 93-97: re.search(rf'"{k}"\s*:\s*"(\d+)"', js) per colorant
TonerFromVar(fields) ==
    [c \in TonerSet |->
        IF TonerKey(c) \in DOMAIN fields /\ IsDigitStr(fields[TonerKey(c)])
        THEN fields[TonerKey(c)] ELSE NA]

\* lines 98-105: the first image of the colorant's row whose alt has "<digits>%"
TonerFromRows(trows) ==
    [c \in TonerSet |->
        IF c \notin DOMAIN trows THEN NA
        ELSE LET alts == trows[c]
                 hits == {i \in 1..Len(alts) : HasDigitsPct(alts[i])}
             IN  IF hits = {} THEN NA
                 ELSE FirstDigitRun(alts[CHOOSE i \in hits : \A j \in hits : i <= j])]

parse_toner(page) ==
    IF page.tonerVar.present THEN TonerFromVar(page.tonerVar.fields)
    ELSE TonerFromRows(page.tonerRows)

\* fetch_printer_status line 169
FormatToner(toner_raw) ==
    [c \in DOMAIN toner_raw |->
        IF IsDigitStr(toner_raw[c]) THEN toner_raw[c] \o <<"%">> ELSE toner_raw[c]]

-----------------------------------------------------------------------------
(* _norm_tray_name                                                         *)

UpperCase == <<"A", "B", "C", "D", "E", "F", "G", "H", "I", "J", "K", "L", "M",
               "N", "O", "P", "Q", "R", "S", "T", "U", "V", "W", "X", "Y", "Z">>
LowerCase == <<"a", "b", "c", "d", "e", "f", "g", "h", "i", "j", "k", "l", "m",
               "n", "o", "p", "q", "r", "s", "t", "u", "v", "w", "x", "y", "z">>

LowerChar(c) ==
    IF \E i \in 1..Len(UpperCase) : UpperCase[i] = c
    THEN LowerCase[CHOOSE i \in 1..Len(UpperCase) : UpperCase[i] = c]
    ELSE c

\* str.lower()
Lower(s) == [i \in 1..Len(s) |-> LowerChar(s[i])]

\* sub in s
Contains(sub, s) ==
    \E i \in 0..(Len(s) - Len(sub)) : SubSeq(s, i + 1, i + Len(sub)) = sub

T_multi   == <<"m", "u", "l", "t", "i">>
T_mp_tray == <<"m", "p", " ", "t", "r", "a", "y">>
T_mp_dash == <<"m", "p", "-", "t", "r", "a", "y">>
T_bypass  == <<"b", "y", "p", "a", "s", "s">>
T_drawer  == <<"d", "r", "a", "w", "e", "r", " ">>

\* what _norm_tray_name returns when no rule applies is the stripped text
\* itself, which holds none of the keywords and so is no key of DRAWERS
OtherTray == "(other)"

\* the first i in 1..4 with f"drawer {i}" in r or r.strip() == str(i)
DrawerHits(r) ==
    {i \in 1..4 : Contains(T_drawer \o NatText(i), r) \/ Strip(r) = NatText(i)}

_norm_tray_name(raw) ==
    LET r == Lower(raw)
    IN  IF Contains(T_multi, r) THEN "Multi-Purpose Tray"
        ELSE IF Contains(T_mp_tray, r) \/ Contains(T_mp_dash, r) \/ Contains(T_bypass, r)
             THEN "Multi-Purpose Tray"
        ELSE IF DrawerHits(r) # {}
             THEN DRAWERS[1 + CHOOSE i \in DrawerHits(r) : \A j \in DrawerHits(r) : i <= j]
        ELSE OtherTray

-----------------------------------------------------------------------------
(* parse_paper                                                             *)
(*                                                                         *)
(* A value of a cstInfo entry, as json.loads gives it:                     *)
(*   [k |-> "absent"]        the key is missing                            *)
(*   [k |-> "null"]          None                                          *)
(*   [k |-> "int", v |-> n]  a JSON number that is an integer              *)
(*   [k |-> "str", s |-> t]  a JSON string                                 *)
(*   [k |-> "other"]         a truthy value int() rejects (1.5, true)      *)

JAbsent  == [k |-> "absent"]
JNull    == [k |-> "null"]
JInt(n)  == [k |-> "int", v |-> n]
JStr(t)  == [k |-> "str", s |-> t]
JOther   == [k |-> "other"]

\* int(str(entry.get(key, "0") or 0))
EntryInt(jv) ==
    CASE jv.k = "absent" -> [ok |-> TRUE, v |-> 0]
      [] jv.k = "null"   -> [ok |-> TRUE, v |-> 0]
      [] jv.k = "int"    -> [ok |-> TRUE, v |-> jv.v]
      [] jv.k = "str"    -> IF jv.s = <<>> THEN [ok |-> TRUE, v |-> 0] ELSE PyInt(jv.s)
      [] OTHER           -> [ok |-> FALSE, v |-> 0]

\* Bars without the cap at the tray's capacity
Bars_NoCap(remain, total) == Max(0, Min(3, remain))

\* line 119: max(0, min(3, min(remain, 3 if total >= 3 else total)))
Bars(remain, total) ==
    Max(0, Min(3, Min(remain, IF total >= 3 THEN 3 ELSE total)))

AllNA == [d \in DrawerSet |-> PaperNA]

\* lines 115-120, over the entries in order; int() raising ValueError leaves
\* the loop and the function
RECURSIVE CstLoop(_, _)
CstLoop(items, paper) ==
    IF items = <<>> THEN [raised |-> FALSE, exc |-> "", paper |-> paper]
    ELSE LET entry == Head(items)
             name == _norm_tray_name(entry.cstName)
             remain == EntryInt(entry.remainPapVol)
             total == EntryInt(entry.totalPapVol)
         IN  IF ~entry.isDict THEN CstLoop(Tail(items), paper)
             ELSE IF ~remain.ok \/ ~total.ok
                  THEN [raised |-> TRUE, exc |-> "ValueError", paper |-> paper]
             ELSE CstLoop(Tail(items),
                          IF name \in DOMAIN paper
                          THEN [paper EXCEPT ![name] = BAR_MAP(Bars(remain.v, total.v))]
                          ELSE paper)

\* lines 124-129: each icon row with a label cell sets its tray, later rows win
RECURSIVE IconLoop(_, _)
IconLoop(irows, paper) ==
    IF irows = <<>> THEN paper
    ELSE LET key == _norm_tray_name(Head(irows).label)
         IN  IconLoop(Tail(irows),
                      IF key \in DOMAIN paper
                      THEN [paper EXCEPT ![key] = ICON_MAP[Head(irows).icon]]
                      ELSE paper)

parse_paper(page) ==
    IF page.cstVar.present /\ page.cstVar.valid
    THEN CstLoop(page.cstVar.items, AllNA)
    ELSE [raised |-> FALSE, exc |-> "", paper |-> IconLoop(page.iconRows, AllNA)]

-----------------------------------------------------------------------------------------------------------------------------------------------------
(* Error strings                                                           *)
(*                                                                         *)
(* The visible text of a page (doc.body.get_text) is the sequence of its   *)
(* sentences, each a string ending with ".", "!" or "?" and holding no     *)
(* other terminator.  The strings of an errors list are strings too; the   *)
(* substring tests and the regular expression of the code are computed on  *)
(* their characters.                                                       *)

CharAt(s, i) == SubSeq(s, i, i)

\* str.lower() of a string
RECURSIVE StrLower(_)
StrLower(s) ==
    IF Len(s) = 0 THEN s
    ELSE LowerChar(CharAt(s, 1)) \o StrLower(SubSeq(s, 2, Len(s)))

\* sub in s, for strings
StrContains(sub, s) ==
    \E i \in 0..(Len(s) - Len(sub)) : SubSeq(s, i + 1, i + Len(sub)) = sub

\* \w of the regular expressions
WordChars ==
    Digits \cup {"_"} \cup {LowerCase[i] : i \in 1..Len(LowerCase)}
        \cup {UpperCase[i] : i \in 1..Len(UpperCase)}

IsWordChar(c) == c \in WordChars

\* \b between the characters i and i + 1 of s
IsBoundary(s, i) ==
    (i >= 1 /\ i <= Len(s) /\ IsWordChar(CharAt(s, i)))
        # (i + 1 >= 1 /\ i + 1 <= Len(s) /\ IsWordChar(CharAt(s, i + 1)))

ColorLower(c) ==
    CASE c = "Cyan" -> "cyan" [] c = "Magenta" -> "magenta"
      [] c = "Yellow" -> "yellow" [] c = "Black" -> "black"

\* f"The {color.lower()} toner is {'empty' if pct == 0 else 'low'}."
TonerSentence(c, kind) == "The " \o ColorLower(c) \o " toner is " \o kind \o "."

\* f"{drawer} is empty."
DrawerSentence(d) == d \o " is empty."

DerivedToner  == {TonerSentence(c, k) : c \in TonerSet, k \in {"low", "empty"}}
DerivedDrawer == {DrawerSentence(d) : d \in DrawerSet}

\* the fixed words of error_keywords (line 134); the alternative no\s\w+
\* stands between "replace" and "empty"
ErrorKeywords ==
    {"toner", "paper", "jam", "error", "service", "install", "replace", "empty"}

\* the last character of the run of word characters of s that starts at i
RECURSIVE WordEnd(_, _)
WordEnd(s, i) ==
    IF i < Len(s) /\ IsWordChar(CharAt(s, i + 1)) THEN WordEnd(s, i + 1) ELSE i

\* where \b(toner|...|no\s\w+|empty)\b, matched at position p of s without
\* regard to case, ends; 0 if it does not match there (low is s.lower())
KeywordEnd(s, low, p) ==
    LET fixed == {k \in ErrorKeywords :
                     /\ p + Len(k) - 1 <= Len(s)
                     /\ SubSeq(low, p, p + Len(k) - 1) = k
                     /\ IsBoundary(s, p + Len(k) - 1)}
    IN  IF ~IsBoundary(s, p - 1) THEN 0
        ELSE IF fixed # {} THEN p + Len(CHOOSE k \in fixed : TRUE) - 1
        ELSE IF /\ p + 3 <= Len(s)
                /\ SubSeq(low, p, p + 1) = "no"
                /\ CharAt(s, p + 2) = " "
                /\ IsWordChar(CharAt(s, p + 3))
             THEN WordEnd(s, p + 3)
        ELSE 0

\* The greedy [^.!?]* before the group gives way one character at a time:
\* the keyword found is the one that starts last, at or before p; 0 if the
\* sentence holds none
RECURSIVE LastKeywordStart(_, _, _)
LastKeywordStart(s, low, p) ==
    IF p = 0 THEN 0
    ELSE IF KeywordEnd(s, low, p) > 0 THEN p
    ELSE LastKeywordStart(s, low, p - 1)

KeywordStart(s) == LastKeywordStart(s, StrLower(s), Len(s))

\* What re.findall (line 135) returns for a sentence with a keyword: the
\* pattern has one group, so the element of the list is the text of the
\* group, not the sentence
Captured(s) ==
    LET low == StrLower(s)
        p == LastKeywordStart(s, low, Len(s))
    IN  SubSeq(s, p, KeywordEnd(s, low, p))

\* _dedupe_preserve without the test against seen
Dedupe_KeepAll(seq) == SelectSeq(seq, LAMBDA x : x # "")

\* _dedupe_preserve
RECURSIVE DedupeFrom(_, _, _)
DedupeFrom(seq, seen, out) ==
    IF seq = <<>> THEN out
    ELSE IF Head(seq) # "" /\ Head(seq) \notin seen
         THEN DedupeFrom(Tail(seq), seen \cup {Head(seq)}, Append(out, Head(seq)))
         ELSE DedupeFrom(Tail(seq), seen, out)

_dedupe_preserve(seq) == DedupeFrom(seq, {}, <<>>)

\* parse_explicit_errors: what findall returns for the sentences holding a
\* keyword, without the elements that hold "no error", deduplicated
parse_explicit_errors(page) ==
    LET HasKeyword(e) == KeywordStart(e) > 0
        hits == SelectSeq(page.body, HasKeyword)
        sentences == [i \in 1..Len(hits) |-> Captured(hits[i])]
        NotNoError(s2) == ~StrContains("no error", StrLower(s2))
    IN  _dedupe_preserve(SelectSeq(sentences, NotNoError))

LowThreshold == 10

\* DeriveToner with the comparison "< 10" in place of "<= 10"
RECURSIVE DeriveToner_Below(_, _)
DeriveToner_Below(toner, i) ==
    IF i > Len(TONERS) THEN <<>>
    ELSE LET c == TONERS[i]
             val == toner[c]
         IN  (IF IsDigitStr(val) /\ DecVal(val) < LowThreshold
              THEN <<TonerSentence(c, IF DecVal(val) = 0 THEN "empty" ELSE "low")>>
              ELSE <<>>) \o DeriveToner_Below(toner, i + 1)

\* derive_fallback_errors: toner.items() and paper.items() are in the order
\* of TONERS and DRAWERS
RECURSIVE DeriveToner(_, _)
DeriveToner(toner, i) ==
    IF i > Len(TONERS) THEN <<>>
    ELSE LET c == TONERS[i]
             val == toner[c]
         IN  (IF IsDigitStr(val) /\ DecVal(val) <= LowThreshold
              THEN <<TonerSentence(c, IF DecVal(val) = 0 THEN "empty" ELSE "low")>>
              ELSE <<>>) \o DeriveToner(toner, i + 1)

\* drawer.lower().startswith("drawer")
IsNumberedDrawer(d) == d \in {"Drawer 1", "Drawer 2", "Drawer 3", "Drawer 4"}

\* str(status).lower() in ["empty", "0 bar", "no paper"]
IsEmptyStatus(status) == status \in {"Empty", "0 Bar", "No Paper"}

RECURSIVE DerivePaper(_, _)
DerivePaper(paper, i) ==
    IF i > Len(DRAWERS) THEN <<>>
    ELSE LET d == DRAWERS[i]
         IN  (IF IsNumberedDrawer(d) /\ IsEmptyStatus(paper[d])
              THEN <<DrawerSentence(d)>> ELSE <<>>) \o DerivePaper(paper, i + 1)

derive_fallback_errors(toner, paper) == DeriveToner(toner, 1) \o DerivePaper(paper, 1)

\* lines 162-168: the derived sentences the merge rule lets through
MergeErrors(errors, derived) ==
    LET Has(kw, e) == StrContains(kw, StrLower(e))
        has_explicit_toner_error == \E i \in 1..Len(errors) : Has("toner", errors[i])
        has_explicit_paper_error ==
            \E i \in 1..Len(errors) : Has("paper", errors[i]) \/ Has("drawer", errors[i])
        Passes(e) ==
            \/ Has("toner", e) /\ ~has_explicit_toner_error
            \/ Has("drawer", e) /\ ~has_explicit_paper_error
    IN  errors \o SelectSeq(derived, Passes)

Raise(exc) == [raised |-> TRUE, exc |-> exc]
Return(data) == [raised |-> FALSE, data |-> data]

\* fetch_printer_status, lines 158-170: from the body it settled on to the
\* record, or the exception parse_paper raised
StatusFromHtml(page) ==
    LET toner_raw == parse_toner(page)
        pp == parse_paper(page)
        errors == parse_explicit_errors(page)
        merged == MergeErrors(errors, derive_fallback_errors(toner_raw, pp.paper))
    IN  IF pp.raised THEN Raise(pp.exc)
        ELSE Return([toner |-> FormatToner(toner_raw), paper |-> pp.paper,
                     errors |-> _dedupe_preserve(merged)])

-----------------------------------------------------------------------------
(* HTTP responses                                                          *)
(*                                                                         *)
(*   Failed         the request raised a requests.RequestException         *)
(*                  (connect or read timeout, refused connection)          *)
(*   Http(ok, page) a response; ok is r.ok, page the abstraction of r.text *)

Failed == [kind |-> "exc"]
NoResp == [kind |-> "none"]
Http(ok, page) == [kind |-> "http", ok |-> ok, page |-> page]

\* the candidate paths of fetch_best_status_html (lines 64-68)
Candidates == 1..3

\* ProbeStep keeping the first successful body instead of the last
ProbeStep_KeepFirst(last, r) ==
    IF r.kind = "exc" THEN [last_ok |-> last, returns |-> FALSE]
    ELSE IF r.ok
         THEN [last_ok |-> IF last.blank THEN r.page ELSE last,
               returns |-> HasSignature(r.page) /\ ~IsLoginPage(r.page)]
         ELSE [last_ok |-> last, returns |-> FALSE]

\* One turn of the loop of fetch_best_status_html (lines 75-83) on the
\* response r of the future just yielded: the new last_ok, and whether the
\* loop returns r's body.
ProbeStep(last, r) ==
    IF r.kind = "exc" THEN [last_ok |-> last, returns |-> FALSE]
    ELSE IF r.ok
         THEN [last_ok |-> r.page,
               returns |-> HasSignature(r.page) /\ ~IsLoginPage(r.page)]
         ELSE [last_ok |-> last, returns |-> FALSE]

\* fetch_best_status_html as a function of the responses in the order
\* as_completed yields them
RECURSIVE ProbeLoop(_, _)
ProbeLoop(obs, last) ==
    IF obs = <<>> THEN last
    ELSE LET st == ProbeStep(last, Head(obs))
         IN  IF st.returns THEN st.last_ok ELSE ProbeLoop(Tail(obs), st.last_ok)

fetch_best_status_html(obs) == ProbeLoop(obs, BlankPage)

\* login_if_needed: root, post and target are the responses its requests
\* would get; reqs lists the requests it issued
login_if_needed(root, post, target) ==
    IF root.kind = "exc"
    THEN [raised |-> TRUE, exc |-> "ConnectionError", reqs |-> <<"GET /">>]
    ELSE IF ~root.ok
    THEN [raised |-> TRUE, exc |-> "HTTPError", reqs |-> <<"GET /">>]
    ELSE IF ~IsLoginPage(root.page)
    THEN [raised |-> FALSE, text |-> root.page, reqs |-> <<"GET /">>]
    ELSE IF post.kind = "exc"
    THEN [raised |-> TRUE, exc |-> "ConnectionError", reqs |-> <<"GET /", "POST action">>]
    ELSE IF ~post.ok
    THEN [raised |-> TRUE, exc |-> "HTTPError", reqs |-> <<"GET /", "POST action">>]
    ELSE IF target.kind = "exc"
    THEN [raised |-> TRUE, exc |-> "ConnectionError",
          reqs |-> <<"GET /", "POST action", "GET uri">>]
    ELSE IF ~target.ok
    THEN [raised |-> TRUE, exc |-> "HTTPError",
          reqs |-> <<"GET /", "POST action", "GET uri">>]
    ELSE [raised |-> FALSE, text |-> target.page,
          reqs |-> <<"GET /", "POST action", "GET uri">>]

\* What the network does to one task: the candidates' responses of the
\* first probe in completion order, the responses login_if_needed would get,
\* and the candidates' responses of the probe after the login.
Network(probe1, root, post, target, probe2) ==
    [probe1 |-> probe1, root |-> root, post |-> post, target |-> target, probe2 |-> probe2]

\* fetch_printer_status, lines 154-170
fetch_printer_status(net) ==
    LET first == fetch_best_status_html(net.probe1)
        lg == login_if_needed(net.root, net.post, net.target)
    IN  IF IsLoginPage(first)
        THEN IF lg.raised THEN Raise(lg.exc)
             ELSE StatusFromHtml(fetch_best_status_html(net.probe2))
        ELSE StatusFromHtml(first)

-----------------------------------------------------------------------------
(* A part of the program that a specification leaves out stays idle: its   *)
(* variables keep the values the specification's initial condition gives.  *)

NoRec == [raised |-> FALSE, data |-> <<>>]

\* try_load_json (app.py) returns None: no file, or no JSON in it
NoStatus == [kind |-> "none"]

-----------------------------------------------------------------------------
(* fetch_printer_status on one page body: the inputs                       *)

MaxTextLen == 3
MaxVol == 4
MaxNeg == 1

\* every text over an alphabet, up to a length
Texts(alphabet, n) == UNION {[1..k -> alphabet] : k \in 0..n}

\* quoted values of tonerVolInfo, and alt texts of toner images
TonerTexts == Texts({"0", "1", "5", "x"}, MaxTextLen)
AltTexts   == Texts({"0", "7", "%", " "}, MaxTextLen)

T_50 == <<"5", "0">>

\* tonerVolInfo with one key of any text, the other keys absent or "50"
TonerVarPages ==
    {[PlainPage EXCEPT !.tonerVar = TonerVar(f)] :
        f \in UNION {[{TonerKey(c)} \cup rest -> {T_50}] \cup
                     {[k \in {TonerKey(c)} \cup rest |-> IF k = TonerKey(c) THEN t ELSE T_50] :
                         t \in TonerTexts} :
                     c \in TonerSet, rest \in SUBSET TonerKeys}}

\* no tonerVolInfo: one colorant's row with one image, or with an image
\* without a percentage before it
TonerRowPages ==
    {[PlainPage EXCEPT !.tonerRows = [k \in {c} |-> alts]] :
        c \in TonerSet, alts \in {<<a>> : a \in AltTexts} \cup {<<<<"-">>, a>> : a \in AltTexts}}

TonerPages == TonerVarPages \cup TonerRowPages \cup {BlankPage, PlainPage}

Entry(name, remain, total) ==
    [isDict |-> TRUE, cstName |-> name, remainPapVol |-> remain, totalPapVol |-> total]

N_Drawer1  == <<"D", "r", "a", "w", "e", "r", " ", "1">>
N_Drawer2  == <<"D", "r", "a", "w", "e", "r", " ", "2">>
N_Two      == <<" ", "2">>
N_MPTray   == <<"M", "P", " ", "T", "r", "a", "y">>
N_Cassette == <<"C", "a", "s", "s", "e", "t", "t", "e">>

TrayNames == {N_Drawer2, N_Two, N_MPTray, N_Cassette}

VolRange == (0 - MaxNeg)..MaxVol

\* the values a remainPapVol or totalPapVol can have
JVals ==
    {JStr(IntText(n)) : n \in VolRange} \cup {JInt(n) : n \in VolRange}
        \cup {JAbsent, JNull, JOther, JStr(<<>>), JStr(<<"x">>), JStr(<<" ", "2", " ">>)}

\* a cstInfo text json.loads rejects, beside the icon table or without it
BrokenCstPages ==
    {[PlainPage EXCEPT !.cstVar = CstVar(FALSE, <<>>), !.iconRows = ir] :
        ir \in {<<>>, <<[label |-> N_Drawer2, icon |-> "04"]>>}}

\* a valid cstInfo that names Drawer 1 only, beside icon rows of other trays
\* or of Drawer 1 itself
MixedPages ==
    {[PlainPage EXCEPT !.cstVar = CstVar(TRUE, <<Entry(N_Drawer1, JStr(IntText(r)), JStr(<<"3">>))>>),
                       !.iconRows = ir] :
        r \in 0..MaxVol,
        ir \in {<<[label |-> N_Drawer2, icon |-> "07"]>>,
                <<[label |-> N_Drawer1, icon |-> "00"], [label |-> N_Drawer2, icon |-> "04"]>>,
                <<[label |-> N_MPTray, icon |-> "10"]>>}}

\* cstInfo with one entry of any name and values, or with Drawer 1 and
\* Drawer 2 of the same total, or one that is no JSON
PaperPages ==
    BrokenCstPages \cup MixedPages \cup
    {[PlainPage EXCEPT !.cstVar = CstVar(TRUE, <<Entry(n, r, t)>>)] :
        n \in TrayNames, r \in JVals, t \in JVals}
    \cup
    {[PlainPage EXCEPT !.cstVar = CstVar(TRUE,
        <<Entry(N_Drawer1, JStr(IntText(r1)), JStr(IntText(t))),
          Entry(N_Drawer2, JStr(IntText(r2)), JStr(IntText(t)))>>)] :
        r1 \in VolRange, r2 \in VolRange, t \in VolRange}

\* fetch_printer_status (lines 158-170) on the body it settled on
Extract ==
    /\ spc = "start"
    /\ rec' = StatusFromHtml(html)
    /\ spc' = "done"
    /\ UNCHANGED <<html, collectVars, raceVars, taskVars, filterVars, pipeVars, mainVars, probeVars, reportVars, saveVars, runVars>>

InitToner ==
    /\ html \in TonerPages /\ rec = NoRec /\ spc = "start"
    /\ tpc = "idle" /\ reqs = <<>> /\ lret = BlankPage
    /\ conn = NoStatus /\ submitted = <<>> /\ fpc = "idle"
    /\ pstep = <<>> /\ pstate = <<>> /\ logs = <<>> /\ okflag = <<>> /\ answer = <<>>
    /\ results_map = <<>>
    /\ purl = "" /\ pnet = <<>> /\ tried = <<>> /\ verdict = [done |-> FALSE]
    /\ html_rows = <<>> /\ html_errors = <<>> /\ hpc = "idle"
    /\ fs_dir = <<>> /\ fs_data = <<>> /\ wfd = <<>> /\ wpc = <<>>
    /\ files = <<>> /\ json_in = "(None)" /\ apc = "idle"
    /\ printers = <<>> /\ scen = <<>> /\ fut = <<>> /\ outcome = <<>>
    /\ yielded = {} /\ rows = <<>> /\ rowFut = <<>> /\ cpc = "idle"
    /\ rstate = [c \in Candidates |-> "idle"]
    /\ resp = [c \in Candidates |-> NoResp]
    /\ observed = <<>> /\ last_ok = BlankPage /\ matched = FALSE
    /\ ret = BlankPage /\ rpc = "idle"
InitPaper ==
    /\ html \in PaperPages /\ rec = NoRec /\ spc = "start"
    /\ tpc = "idle" /\ reqs = <<>> /\ lret = BlankPage
    /\ conn = NoStatus /\ submitted = <<>> /\ fpc = "idle"
    /\ pstep = <<>> /\ pstate = <<>> /\ logs = <<>> /\ okflag = <<>> /\ answer = <<>>
    /\ results_map = <<>>
    /\ purl = "" /\ pnet = <<>> /\ tried = <<>> /\ verdict = [done |-> FALSE]
    /\ html_rows = <<>> /\ html_errors = <<>> /\ hpc = "idle"
    /\ fs_dir = <<>> /\ fs_data = <<>> /\ wfd = <<>> /\ wpc = <<>>
    /\ files = <<>> /\ json_in = "(None)" /\ apc = "idle"
    /\ printers = <<>> /\ scen = <<>> /\ fut = <<>> /\ outcome = <<>>
    /\ yielded = {} /\ rows = <<>> /\ rowFut = <<>> /\ cpc = "idle"
    /\ rstate = [c \in Candidates |-> "idle"]
    /\ resp = [c \in Candidates |-> NoResp]
    /\ observed = <<>> /\ last_ok = BlankPage /\ matched = FALSE
    /\ ret = BlankPage /\ rpc = "idle"

SpecToner == InitToner /\ [][Extract]_vars
SpecPaper == InitPaper /\ [][Extract]_vars

-----------------------------------------------------------------------------
(* Claims about the extraction of one page body                            *)

\* "<n>%" with n an integer in 0..100
IsPercentText(v) ==
    /\ Len(v) >= 2
    /\ v[Len(v)] = "%"
    /\ IsDigitStr(SubSeq(v, 1, Len(v) - 1))
    /\ DecVal(SubSeq(v, 1, Len(v) - 1)) \in 0..100

\* C9: for every page body, each toner value of the record is the sentinel
\* "N/A" or "<n>%" with n an integer in 0..100.
C9_TonerInRange ==
    (spc = "done" /\ ~rec.raised) =>
        \A c \in TonerSet : rec.data.toner[c] = NA \/ IsPercentText(rec.data.toner[c])

OrdinalOf(status) ==
    CASE status = "Empty" -> 0 [] status = "1 Bar" -> 1 [] status = "2 Bar" -> 2
      [] status = "3 Bar" -> 3

Clamp(x, lo, hi) == Max(lo, Min(hi, x))

\* the tray key each name of TrayNames stands for
TrayOf(name) ==
    CASE name \in {N_Drawer2, N_Two} -> "Drawer 2" [] name = N_Drawer1 -> "Drawer 1"
      [] name = N_MPTray -> "Multi-Purpose Tray" [] OTHER -> OtherTray

IsInt(jv, n) == jv \in {JStr(IntText(n)), JInt(n)}

\* the page holds one cstInfo entry, of a known tray, with integers r and t
OneEntry(r, t) ==
    /\ html.cstVar.present
    /\ Len(html.cstVar.items) = 1
    /\ TrayOf(html.cstVar.items[1].cstName) \in DrawerSet
    /\ IsInt(html.cstVar.items[1].remainPapVol, r)
    /\ IsInt(html.cstVar.items[1].totalPapVol, t)

\* the page holds Drawer 1 with r1 of t and Drawer 2 with r2 of t
TwoEntries(r1, r2, t) ==
    /\ html.cstVar.present
    /\ html.cstVar.items = <<Entry(N_Drawer1, JStr(IntText(r1)), JStr(IntText(t))),
                             Entry(N_Drawer2, JStr(IntText(r2)), JStr(IntText(t)))>>

\* The bar ordinal of the tray of a one-entry page, with the bound cap[total] on it
BarsAre(cap) ==
    spc = "done" =>
        /\ \A r \in VolRange, t \in VolRange :
              OneEntry(r, t) =>
                  LET level == rec.data.paper[TrayOf(html.cstVar.items[1].cstName)]
                  IN  /\ ~rec.raised
                      /\ level = BAR_MAP(Clamp(Min(r, Min(t, 3)), 0, 3))
                      /\ OrdinalOf(level) <= cap[t]
        /\ \A r1 \in VolRange, r2 \in VolRange, t \in VolRange :
              (TwoEntries(r1, r2, t) /\ r1 <= r2) =>
                  /\ ~rec.raised
                  /\ OrdinalOf(rec.data.paper["Drawer 1"]) <= OrdinalOf(rec.data.paper["Drawer 2"])

\* C10 as stated: the bar ordinal of a cstInfo entry with integers remaining
\* and total is clamp(min(remaining, min(total,3)), 0, 3), does not decrease
\* when remaining increases with total fixed, and never exceeds min(total, 3).
C10_BarsAsStated ==
    BarsAre([t \in VolRange |-> Min(t, 3)])

\* C10 as amended: ... and never exceeds max(0, min(total, 3)), which is
\* min(total, 3) for every total >= 0.
C10_Bars ==
    BarsAre([t \in VolRange |-> Max(0, Min(t, 3))])

\* Drawer 2 with remaining 1 of total 3 was read and shows "1 Bar"
C10_Witness ==
    /\ spc = "done"
    /\ html.cstVar.present
    /\ html.cstVar.items = <<Entry(N_Drawer2, JStr(<<"1">>), JStr(<<"3">>))>>
    /\ ~rec.raised
    /\ rec.data.paper["Drawer 2"] = "1 Bar"

\* the cstInfo found in the page is no valid data: json.loads rejects it, or
\* an entry has a remaining or total value that is no integer
Malformed(page) ==
    /\ page.cstVar.present
    /\ \/ ~page.cstVar.valid
       \/ \E i \in 1..Len(page.cstVar.items) :
             /\ page.cstVar.items[i].isDict
             /\ \/ ~EntryInt(page.cstVar.items[i].remainPapVol).ok
                \/ ~EntryInt(page.cstVar.items[i].totalPapVol).ok

\* C15: a cstInfo that is found but is no valid data is treated as absent:
\* the paper readings are those of the next step (the icon rows), the task
\* does not fail and the record gets no error string about it.
C15_MalformedNotFatal ==
    (spc = "done" /\ Malformed(html)) =>
        /\ ~rec.raised
        /\ rec.data.paper = IconLoop(html.iconRows, AllNA)
        /\ \A i \in 1..Len(rec.data.errors) :
              rec.data.errors[i] \in DerivedToner \cup DerivedDrawer

\* what the cstInfo of the page resolves, tray by tray ("N/A": not resolved)
FromCstInfo(page) ==
    IF page.cstVar.present /\ page.cstVar.valid /\ ~CstLoop(page.cstVar.items, AllNA).raised
    THEN CstLoop(page.cstVar.items, AllNA).paper
    ELSE AllNA

\* what the icon rows of the page give, tray by tray ("N/A": no such row)
FromIcons(page) == IconLoop(page.iconRows, AllNA)

\* C21: for every tray key the cstInfo of the page does not resolve, the
\* value is the one of the icon row with a matching label when such a row
\* exists and "N/A" only when both sources fail; a tray resolved by cstInfo
\* keeps the cstInfo value.
C21_PerTrayFallback ==
    (spc = "done" /\ ~rec.raised) =>
        \A k \in DrawerSet :
            rec.data.paper[k] = IF FromCstInfo(html)[k] # PaperNA
                                THEN FromCstInfo(html)[k]
                                ELSE FromIcons(html)[k]

-----------------------------------------------------------------------------
(* fetch_printer_status on one page body: pages with error sentences       *)

MaxBody == 2

\* the sentences a page body can show
SentencePool ==
    {"Replace the toner cartridge.", "Toner low.", "No paper.", "Paper jam in Drawer 1.",
     "No errors found.", "Ready to print.", "The black toner is empty.",
     "Drawer 2 is empty."}

Bodies == UNION {[1..n -> SentencePool] : n \in 0..MaxBody}

T_5  == <<"5">>
T_80 == <<"8", "0">>
T_0  == <<"0">>

\* tonerVolInfo = {"tonerCVol":"5","tonerMVol":"50","tonerYVol":"80","tonerKVol":"0"}
ExampleToner ==
    [k \in TonerKeys |->
        CASE k = "tonerCVol" -> T_5 [] k = "tonerMVol" -> T_50
          [] k = "tonerYVol" -> T_80 [] k = "tonerKVol" -> T_0]

\* readings around the low threshold
ReadingTexts == {T_0, <<"0", "0">>, T_5, <<"1", "0">>, <<"1", "1">>}

\* no tonerVolInfo, the example, or cyan or black at a reading and the other
\* colorants at 50
TonerReadings ==
    {NoVar, TonerVar(ExampleToner)} \cup
    {TonerVar([k \in TonerKeys |-> IF k = TonerKey(c) THEN t ELSE T_50]) :
        c \in {"Cyan", "Black"}, t \in ReadingTexts}

N_Drawer3 == <<"D", "r", "a", "w", "e", "r", " ", "3">>
N_Drawer4 == <<"D", "r", "a", "w", "e", "r", " ", "4">>
N_Multi   == <<"M", "u", "l", "t", "i", "-", "P", "u", "r", "p", "o", "s", "e", " ",
               "T", "r", "a", "y">>

\* the table of the five trays, each row with its pap_mXX.gif icon
IconTable(mp, d1, d2, d3, d4) ==
    <<[label |-> N_Multi, icon |-> mp], [label |-> N_Drawer1, icon |-> d1],
      [label |-> N_Drawer2, icon |-> d2], [label |-> N_Drawer3, icon |-> d3],
      [label |-> N_Drawer4, icon |-> d4]>>

PaperReadings ==
    {<<>>,
     IconTable("00", "10", "10", "10", "10"),
     IconTable("00", "10", "00", "10", "10"),
     IconTable("10", "00", "04", "00", "07")}

ErrorPages ==
    {[PlainPage EXCEPT !.tonerVar = tv, !.iconRows = ir, !.body = b] :
        tv \in TonerReadings, ir \in PaperReadings, b \in Bodies}

InitErrors ==
    /\ html \in ErrorPages /\ rec = NoRec /\ spc = "start"
    /\ tpc = "idle" /\ reqs = <<>> /\ lret = BlankPage
    /\ conn = NoStatus /\ submitted = <<>> /\ fpc = "idle"
    /\ pstep = <<>> /\ pstate = <<>> /\ logs = <<>> /\ okflag = <<>> /\ answer = <<>>
    /\ results_map = <<>>
    /\ purl = "" /\ pnet = <<>> /\ tried = <<>> /\ verdict = [done |-> FALSE]
    /\ html_rows = <<>> /\ html_errors = <<>> /\ hpc = "idle"
    /\ fs_dir = <<>> /\ fs_data = <<>> /\ wfd = <<>> /\ wpc = <<>>
    /\ files = <<>> /\ json_in = "(None)" /\ apc = "idle"
    /\ printers = <<>> /\ scen = <<>> /\ fut = <<>> /\ outcome = <<>>
    /\ yielded = {} /\ rows = <<>> /\ rowFut = <<>> /\ cpc = "idle"
    /\ rstate = [c \in Candidates |-> "idle"]
    /\ resp = [c \in Candidates |-> NoResp]
    /\ observed = <<>> /\ last_ok = BlankPage /\ matched = FALSE
    /\ ret = BlankPage /\ rpc = "idle"

SpecErrors == InitErrors /\ [][Extract]_vars

-----------------------------------------------------------------------------
(* Claims about the error sentences of a record                            *)

Returned == spc = "done" /\ ~rec.raised

NoDuplicates(s) == \A i, j \in 1..Len(s) : i # j => s[i] # s[j]

Occurs(x, s) == \E i \in 1..Len(s) : s[i] = x

FirstIndex(x, s) == CHOOSE i \in 1..Len(s) : s[i] = x /\ \A j \in 1..(i - 1) : s[j] # x

Count(x, s) == Cardinality({i \in 1..Len(s) : s[i] = x})

\* the derived sentences for the readings of the record
Derived == derive_fallback_errors(parse_toner(html), rec.data.paper)

\* the strings the record's errors are chosen from, in the order the code
\* meets them: what it takes from each sentence of the page ("" from a
\* sentence without keyword), then the derived sentences
ErrorCandidates ==
    [i \in 1..Len(html.body) |->
        IF KeywordStart(html.body[i]) > 0 THEN Captured(html.body[i]) ELSE ""]
    \o Derived

\* C11: the errors of every record returned hold no two equal strings and
\* keep the sentences in the order of their first occurrence; deduplicating
\* a deduplicated sequence returns it unchanged.
C11_DedupedInOrder ==
    Returned =>
        LET errs == rec.data.errors
            cand == ErrorCandidates
        IN  /\ NoDuplicates(errs)
            /\ \A i \in 1..Len(errs) : Occurs(errs[i], cand)
            /\ \A i, j \in 1..Len(errs) :
                  i < j => FirstIndex(errs[i], cand) < FirstIndex(errs[j], cand)
            /\ _dedupe_preserve(errs) = errs
            /\ _dedupe_preserve(_dedupe_preserve(html.body)) = _dedupe_preserve(html.body)

\* a page showing the same sentence twice, with black toner at 0: the record
\* has one string for the sentence, followed by the derived one
C11_Witness ==
    /\ Returned
    /\ html.body = <<"No paper.", "No paper.">>
    /\ Len(rec.data.errors) = 2
    /\ StrContains(rec.data.errors[1], "No paper.")
    /\ rec.data.errors[2] = "The black toner is empty."

\* the explicit sentences of a page: its sentences that hold a keyword and
\* do not state the absence of an error
IsExplicit(sentence) ==
    KeywordStart(sentence) > 0 /\ ~StrContains("no error", StrLower(sentence))

\* an explicit sentence of the page mentions kw
ExplicitAbout(kw) ==
    \E i \in 1..Len(html.body) :
        IsExplicit(html.body[i]) /\ StrContains(kw, StrLower(html.body[i]))

ExplicitToner == ExplicitAbout("toner")
ExplicitPaper == ExplicitAbout("paper") \/ ExplicitAbout("drawer")

\* C12: a derived sentence about toner (paper) is in the final errors if and
\* only if no explicit sentence about toner (paper) exists; a reading of 0
\* yields its "... toner is empty." sentence when no explicit sentence
\* mentions toner; explicit toner sentences do not suppress derived paper
\* sentences, nor the reverse.
C12_MergeRule ==
    Returned =>
        /\ \A i \in 1..Len(Derived) :
              /\ Derived[i] \in DerivedToner =>
                    (Occurs(Derived[i], rec.data.errors) <=> ~ExplicitToner)
              /\ Derived[i] \in DerivedDrawer =>
                    (Occurs(Derived[i], rec.data.errors) <=> ~ExplicitPaper)
        /\ \A c \in TonerSet :
              (IsDigitStr(parse_toner(html)[c]) /\ DecVal(parse_toner(html)[c]) = 0
                  /\ ~ExplicitToner)
              => Occurs(TonerSentence(c, "empty"), rec.data.errors)

\* C13: derive_fallback_errors gives exactly one sentence per colorant whose
\* numeric reading is at or below the low threshold ("empty" iff the reading
\* is 0, "low" otherwise), exactly one "<Drawer N> is empty." per numbered
\* drawer at Empty, and no other sentence: none for the Multi-Purpose Tray,
\* an unavailable reading or a reading above the threshold; readings
\* C=5, M=50, Y=80, K=0 give cyan-low and black-empty only.
C13_DerivedLayer ==
    Returned =>
        LET toner == parse_toner(html)
            paper == rec.data.paper
            Numeric(c) == IsDigitStr(toner[c])
        IN  /\ \A c \in TonerSet :
                  /\ Count(TonerSentence(c, "empty"), Derived) =
                        IF Numeric(c) /\ DecVal(toner[c]) = 0 THEN 1 ELSE 0
                  /\ Count(TonerSentence(c, "low"), Derived) =
                        IF Numeric(c) /\ DecVal(toner[c]) > 0 /\ DecVal(toner[c]) <= LowThreshold
                        THEN 1 ELSE 0
            /\ \A d \in DrawerSet :
                  Count(DrawerSentence(d), Derived) =
                        IF d # "Multi-Purpose Tray" /\ paper[d] = "Empty" THEN 1 ELSE 0
            /\ \A i \in 1..Len(Derived) : Derived[i] \in DerivedToner \cup DerivedDrawer
            /\ (html.tonerVar = TonerVar(ExampleToner) /\ html.iconRows = <<>>) =>
                  Derived = <<"The cyan toner is low.", "The black toner is empty.">>

\* the example readings were extracted from a page without error sentences:
\* the record's errors are the two derived sentences
C13_Witness ==
    /\ Returned
    /\ html.tonerVar = TonerVar(ExampleToner)
    /\ html.body = <<>>
    /\ rec.data.toner = [c \in TonerSet |->
          CASE c = "Cyan" -> <<"5", "%">> [] c = "Magenta" -> <<"5", "0", "%">>
            [] c = "Yellow" -> <<"8", "0", "%">> [] c = "Black" -> <<"0", "%">>]
    /\ html.iconRows = <<>>
    /\ rec.data.errors = <<"The cyan toner is low.", "The black toner is empty.">>

\* only the Multi-Purpose Tray is Empty and Drawers 1-4 are "3 Bar"
OnlyMPEmpty(paper) ==
    /\ paper["Multi-Purpose Tray"] = "Empty"
    /\ \A d \in DrawerSet \ {"Multi-Purpose Tray"} : paper[d] = "3 Bar"

\* the same readings but with Drawer 2 Empty
MPAndDrawer2Empty(paper) ==
    /\ paper["Multi-Purpose Tray"] = "Empty"
    /\ paper["Drawer 2"] = "Empty"
    /\ \A d \in DrawerSet \ {"Multi-Purpose Tray", "Drawer 2"} : paper[d] = "3 Bar"

\* a string taken from the sentence is among the record's errors
ReportedFrom(sentence) ==
    \E i \in 1..Len(rec.data.errors) :
        StrContains(StrLower(rec.data.errors[i]), StrLower(sentence))

\* C14: when only the Multi-Purpose Tray is Empty and Drawers 1-4 are all
\* "3 Bar", a "no paper" sentence of the page is not in the record's errors;
\* with Drawer 2 Empty as well, it is.
C14_NoiseSuppressed ==
    (Returned /\ Occurs("No paper.", html.body)) =>
        /\ OnlyMPEmpty(rec.data.paper) => ~ReportedFrom("No paper.")
        /\ MPAndDrawer2Empty(rec.data.paper) => ReportedFrom("No paper.")

-----------------------------------------------------------------------------
(* fetch_best_status_html: one call, with its three request threads        *)

LoginPage    == [PlainPage EXCEPT !.login = TRUE]
\* a login page that also shows the word "Consumables"
LoginSigPage == [PlainPage EXCEPT !.login = TRUE, !.sigText = TRUE]
\* two telemetry pages
TonerPage50  == [PlainPage EXCEPT !.tonerVar = TonerVar([k \in TonerKeys |-> T_50])]
ErrorInfoPage ==
    [PlainPage EXCEPT !.sigText = TRUE, !.body = <<"Call service representative.">>]

\* what a candidate request can end with
RaceResponses ==
    {Failed, Http(FALSE, PlainPage), Http(TRUE, BlankPage), Http(TRUE, PlainPage),
     Http(TRUE, LoginPage), Http(TRUE, LoginSigPage), Http(TRUE, TonerPage50),
     Http(TRUE, ErrorInfoPage)}

\* the session the request thread of candidate c calls get() on: the lambda
\* of line 73 closes over the caller's s
CallerSession == "s"
SessionOf(c) == CallerSession

RaceInit ==
    /\ rstate = [c \in Candidates |-> "idle"]
    /\ resp = [c \in Candidates |-> NoResp]
    /\ observed = <<>> /\ last_ok = BlankPage /\ matched = FALSE
    /\ ret = BlankPage /\ rpc = "start"
    /\ printers = <<>> /\ scen = <<>> /\ fut = <<>> /\ outcome = <<>>
    /\ yielded = {} /\ rows = <<>> /\ rowFut = <<>> /\ cpc = "idle"
    /\ html = BlankPage /\ rec = NoRec /\ spc = "idle"
    /\ tpc = "idle" /\ reqs = <<>> /\ lret = BlankPage
    /\ conn = NoStatus /\ submitted = <<>> /\ fpc = "idle"
    /\ pstep = <<>> /\ pstate = <<>> /\ logs = <<>> /\ okflag = <<>> /\ answer = <<>>
    /\ results_map = <<>>
    /\ purl = "" /\ pnet = <<>> /\ tried = <<>> /\ verdict = [done |-> FALSE]
    /\ html_rows = <<>> /\ html_errors = <<>> /\ hpc = "idle"
    /\ fs_dir = <<>> /\ fs_data = <<>> /\ wfd = <<>> /\ wpc = <<>>
    /\ files = <<>> /\ json_in = "(None)" /\ apc = "idle"

\* line 73: the three requests are submitted to a pool of three threads
RaceSubmit ==
    /\ rpc = "start"
    /\ rstate' = [c \in Candidates |-> "running"]
    /\ rpc' = "loop"
    /\ UNCHANGED <<resp, observed, last_ok, matched, ret, collectVars, statusVars, taskVars, filterVars, pipeVars, mainVars, probeVars, reportVars, saveVars, runVars>>

\* the request of candidate c ends: a response, or a RequestException
\* (the timeouts of line 70 bound every request)
RaceComplete(c) ==
    /\ rstate[c] = "running"
    /\ \E r \in RaceResponses : resp' = [resp EXCEPT ![c] = r]
    /\ rstate' = [rstate EXCEPT ![c] = "done"]
    /\ UNCHANGED <<observed, last_ok, matched, ret, rpc, collectVars, statusVars, taskVars, filterVars, pipeVars, mainVars, probeVars, reportVars, saveVars, runVars>>

\* RaceYield with a failed request ending the loop: the body seen last is
\* returned and the futures not yet yielded are never looked at
RaceYield_StopOnError(c) ==
    /\ rpc = "loop"
    /\ rstate[c] = "done"
    /\ \A i \in 1..Len(observed) : observed[i] # c
    /\ LET st == ProbeStep(last_ok, resp[c])
       IN  /\ last_ok' = st.last_ok
           /\ observed' = Append(observed, c)
           /\ matched' = st.returns
           /\ ret' = IF st.returns THEN resp[c].page
                     ELSE IF resp[c].kind = "exc" THEN last_ok ELSE ret
           /\ rpc' = IF st.returns \/ resp[c].kind = "exc" THEN "exit" ELSE "loop"
    /\ UNCHANGED <<rstate, resp, collectVars, statusVars, taskVars, filterVars, pipeVars, mainVars, probeVars, reportVars, saveVars, runVars>>

\* lines 74-83: as_completed yields a finished future and the loop body runs
RaceYield(c) ==
    /\ rpc = "loop"
    /\ rstate[c] = "done"
    /\ \A i \in 1..Len(observed) : observed[i] # c
    /\ LET st == ProbeStep(last_ok, resp[c])
       IN  /\ last_ok' = st.last_ok
           /\ observed' = Append(observed, c)
           /\ matched' = st.returns
           /\ ret' = IF st.returns THEN resp[c].page ELSE ret
           /\ rpc' = IF st.returns THEN "exit" ELSE "loop"
    /\ UNCHANGED <<rstate, resp, collectVars, statusVars, taskVars, filterVars, pipeVars, mainVars, probeVars, reportVars, saveVars, runVars>>

\* line 84: every future was yielded and none matched
RaceExhausted ==
    /\ rpc = "loop"
    /\ Len(observed) = Cardinality(Candidates)
    /\ ret' = last_ok
    /\ rpc' = "exit"
    /\ UNCHANGED <<rstate, resp, observed, last_ok, matched, collectVars, statusVars, taskVars, filterVars, pipeVars, mainVars, probeVars, reportVars, saveVars, runVars>>

\* leaving the with block of line 72: ThreadPoolExecutor.__exit__ is
\* shutdown(wait=True), which joins the three threads; then the caller has ret
RaceReturn ==
    /\ rpc = "exit"
    /\ \A c \in Candidates : rstate[c] = "done"
    /\ rpc' = "returned"
    /\ UNCHANGED <<rstate, resp, observed, last_ok, matched, ret, collectVars, statusVars, taskVars, filterVars, pipeVars, mainVars, probeVars, reportVars, saveVars, runVars>>

NextRace ==
    \/ RaceSubmit
    \/ \E c \in Candidates : RaceComplete(c)
    \/ \E c \in Candidates : RaceYield(c)
    \/ RaceExhausted
    \/ RaceReturn

SpecRace == RaceInit /\ [][NextRace]_vars

-----------------------------------------------------------------------------
(* Claims about fetch_best_status_html                                     *)

\* C6: as soon as a successful response with a telemetry signature was seen,
\* its body is returned to the caller at once: the function can return while
\* sibling requests are still in flight.
C6_ReturnsAtOnce == (rpc = "exit" /\ matched) => ENABLED RaceReturn

Succeeded(c) == resp[c].kind = "http" /\ resp[c].ok

\* the positions of the successful responses among the observed ones
OkSeen == {i \in 1..Len(observed) : Succeeded(observed[i])}

\* the body of the last successful response observed
LastOkSeen == resp[observed[CHOOSE i \in OkSeen : \A j \in OkSeen : j <= i]].page

\* no candidate response is both successful and signature-matching
NoneMatches == \A c \in Candidates : ~(Succeeded(c) /\ HasSignature(resp[c].page))

\* the first half of C7: without a match the last successful body observed
\* is returned
FallbackIsLastOk ==
    (rpc = "returned" /\ NoneMatches /\ OkSeen # {}) => ret = LastOkSeen

\* C7 as stated: ... and the empty string is returned if and only if no
\* candidate succeeded at all.
C7_FallbackAsStated ==
    /\ FallbackIsLastOk
    /\ rpc = "returned" => (ret = BlankPage <=> \A c \in Candidates : ~Succeeded(c))

\* C7 as amended: ... and the empty string is returned if and only if no
\* candidate succeeded at all or the body returned is itself empty (the
\* last successful response observed had an empty body).
C7_Fallback ==
    /\ FallbackIsLastOk
    /\ rpc = "returned" =>
          (ret = BlankPage <=>
              \/ \A c \in Candidates : ~Succeeded(c)
              \/ OkSeen # {} /\ LastOkSeen = BlankPage)

\* two successful bodies without signature were observed, and the later one
\* was returned
C7_Witness ==
    /\ rpc = "returned"
    /\ NoneMatches
    /\ Cardinality(OkSeen) >= 2
    /\ \E i \in OkSeen : resp[observed[i]].page # LastOkSeen
    /\ ret = LastOkSeen

\* the request threads using session sess right now
UsersOf(sess) == {c \in Candidates : rstate[c] = "running" /\ SessionOf(c) = sess}

\* C8: no session is used by two threads at the same time.
C8_NoSharedSession == \A sess \in {SessionOf(c) : c \in Candidates} : Cardinality(UsersOf(sess)) <= 1

\* the response of candidate c is successful, shows a telemetry signature
\* and is no login page
Matches(c) == Succeeded(c) /\ HasSignature(resp[c].page) /\ ~IsLoginPage(resp[c].page)

\* the responses observed, in the order of observation, without the
\* requests that raised
ObservedWithoutFailures ==
    LET all == [i \in 1..Len(observed) |-> resp[observed[i]]]
    IN  SelectSeq(all, LAMBDA r : r.kind # "exc")

\* C22: a candidate request that times out or raises a request error only
\* leaves the race: every sibling request runs to its end, the body
\* returned is the one the race of the other candidates alone gives, and
\* when any sibling's response matches (successful, with a signature, no
\* login page) a matching body is returned, whatever the order in which the
\* requests end.
C22_FailureOnlyResigns ==
    rpc = "returned" =>
        /\ \A c \in Candidates : rstate[c] = "done" /\ resp[c] # NoResp
        /\ ret = fetch_best_status_html(ObservedWithoutFailures)
        /\ (\E c \in Candidates : Matches(c)) =>
              /\ matched
              /\ \E c \in Candidates : Matches(c) /\ ret = resp[c].page
        /\ ~matched => Len(observed) = Cardinality(Candidates)

\* the request that ended first raised, a sibling that ended later matched,
\* and its body was returned
C22_Witness ==
    /\ rpc = "returned"
    /\ Len(observed) >= 2
    /\ resp[observed[1]] = Failed
    /\ Matches(observed[Len(observed)])
    /\ ret = resp[observed[Len(observed)]].page

-----------------------------------------------------------------------------
(* fetch_printer_status, request by request                                *)

\* the login page with its form: <form name="login" action=a> and
\* <input name="uri" value=u>
LoginForm(a, u) == [LoginPage EXCEPT !.form = [action |-> a, uri |-> u]]

\* line 51: form.get("action", "/login") if form else "/login"
FormAction(page) == IF page.form.action = None THEN "/login" ELSE page.form.action

\* line 53: uri_el.get("value", "/") if uri_el else "/"
FormUri(page) == IF page.form.uri = None THEN "/" ELSE page.form.uri

\* line 55: a uri starting with "/" is joined to the base, any other is
\* requested as it is (the uri values of the model hold no percent escape)
Target(uri) == IF SubSeq(uri, 1, 1) = "/" THEN "<base>" \o uri ELSE uri

NoData == [userID |-> None, password |-> None, uri |-> None]

\* a request of the task: who issued it, and for a request of
\* login_if_needed the response it got
Request(by, method, url, data, r) ==
    [by |-> by, method |-> method, url |-> url, data |-> data, resp |-> r]

\* lines 64-73: the three candidate requests of one probe
CandidatePaths == <<"/rps/dstatus.cgi", "/rps/", "/">>

ProbeRequests ==
    [c \in Candidates |-> Request("probe", "GET", "<base>" \o CandidatePaths[c], NoData, NoResp)]

\* the responses of the three candidates in the order of their completion
ProbeOutcomes == [Candidates -> RaceResponses]

\* what GET / can answer to login_if_needed
RootResponses ==
    {Failed, Http(FALSE, PlainPage), Http(TRUE, PlainPage), Http(TRUE, TonerPage50),
     Http(TRUE, LoginPage), Http(TRUE, LoginForm("/checkLogin.cgi", "/rps/")),
     Http(TRUE, LoginForm("/checkLogin.cgi", "https://portal/"))}

PostResponses == {Failed, Http(FALSE, LoginPage), Http(TRUE, PlainPage), Http(TRUE, LoginPage)}

TargetResponses ==
    {Failed, Http(FALSE, PlainPage), Http(TRUE, PlainPage), Http(TRUE, LoginPage),
     Http(TRUE, TonerPage50)}

\* Raises without raise_for_status: only a network error raises
Raises_NetworkOnly(r) == r.kind = "exc"

\* s.get / s.post raise on a network error, raise_for_status on a non-2xx
\* response (lines 46-47, 54, 56)
Raises(r) == r.kind = "exc" \/ ~r.ok

ExcOf(r) == IF r.kind = "exc" THEN "ConnectionError" ELSE "HTTPError"

\* the requests login_if_needed issued
LoginReqs == SelectSeq(reqs, LAMBDA q : q.by = "login")

TaskInit ==
    /\ tpc = "probe1" /\ reqs = <<>> /\ lret = BlankPage
    /\ conn = NoStatus /\ submitted = <<>> /\ fpc = "idle"
    /\ pstep = <<>> /\ pstate = <<>> /\ logs = <<>> /\ okflag = <<>> /\ answer = <<>>
    /\ results_map = <<>>
    /\ purl = "" /\ pnet = <<>> /\ tried = <<>> /\ verdict = [done |-> FALSE]
    /\ html_rows = <<>> /\ html_errors = <<>> /\ hpc = "idle"
    /\ fs_dir = <<>> /\ fs_data = <<>> /\ wfd = <<>> /\ wpc = <<>>
    /\ files = <<>> /\ json_in = "(None)" /\ apc = "idle"
    /\ html = BlankPage /\ rec = NoRec /\ spc = "idle"
    /\ printers = <<>> /\ scen = <<>> /\ fut = <<>> /\ outcome = <<>>
    /\ yielded = {} /\ rows = <<>> /\ rowFut = <<>> /\ cpc = "idle"
    /\ rstate = [c \in Candidates |-> "idle"]
    /\ resp = [c \in Candidates |-> NoResp]
    /\ observed = <<>> /\ last_ok = BlankPage /\ matched = FALSE
    /\ ret = BlankPage /\ rpc = "idle"

\* line 154: the first probe; line 155 decides whether to log in
TaskProbe1 ==
    /\ tpc = "probe1"
    /\ \E obs \in ProbeOutcomes :
          /\ html' = fetch_best_status_html(obs)
          /\ tpc' = IF IsLoginPage(fetch_best_status_html(obs)) THEN "login" ELSE "parse"
    /\ reqs' = reqs \o ProbeRequests
    /\ UNCHANGED <<lret, rec, spc, collectVars, raceVars, filterVars, pipeVars, mainVars, probeVars, reportVars, saveVars, runVars>>

\* login_if_needed, lines 46-48 and 57: GET of the root
LoginGetRoot ==
    /\ tpc = "login"
    /\ \E r \in RootResponses :
          /\ reqs' = Append(reqs, Request("login", "GET", "<base>/", NoData, r))
          /\ IF Raises(r)
             THEN tpc' = "raised" /\ rec' = Raise(ExcOf(r)) /\ lret' = lret
             ELSE IF IsLoginPage(r.page)
                  THEN tpc' = "post" /\ rec' = rec /\ lret' = lret
                  ELSE tpc' = "probe2" /\ rec' = rec /\ lret' = r.page
    /\ UNCHANGED <<html, spc, collectVars, raceVars, filterVars, pipeVars, mainVars, probeVars, reportVars, saveVars, runVars>>

\* login_if_needed, lines 49-54: the blank credentials are posted
LoginPost ==
    /\ tpc = "post"
    /\ LET page == LoginReqs[1].resp.page
       IN  \E r \in PostResponses :
              /\ reqs' = Append(reqs,
                    Request("login", "POST", "<base>" \o FormAction(page),
                            [userID |-> "", password |-> "", uri |-> FormUri(page)], r))
              /\ IF Raises(r)
                 THEN tpc' = "raised" /\ rec' = Raise(ExcOf(r))
                 ELSE tpc' = "target" /\ rec' = rec
    /\ UNCHANGED <<html, lret, spc, collectVars, raceVars, filterVars, pipeVars, mainVars, probeVars, reportVars, saveVars, runVars>>

\* login_if_needed, lines 55-57: GET of the redirect target
LoginGetTarget ==
    /\ tpc = "target"
    /\ LET page == LoginReqs[1].resp.page
       IN  \E r \in TargetResponses :
              /\ reqs' = Append(reqs, Request("login", "GET", Target(FormUri(page)), NoData, r))
              /\ IF Raises(r)
                 THEN tpc' = "raised" /\ rec' = Raise(ExcOf(r)) /\ lret' = lret
                 ELSE tpc' = "probe2" /\ rec' = rec /\ lret' = r.page
    /\ UNCHANGED <<html, spc, collectVars, raceVars, filterVars, pipeVars, mainVars, probeVars, reportVars, saveVars, runVars>>

\* line 157: the probe after the login
TaskProbe2 ==
    /\ tpc = "probe2"
    /\ \E obs \in ProbeOutcomes : html' = fetch_best_status_html(obs)
    /\ reqs' = reqs \o ProbeRequests
    /\ tpc' = "parse"
    /\ UNCHANGED <<lret, rec, spc, collectVars, raceVars, filterVars, pipeVars, mainVars, probeVars, reportVars, saveVars, runVars>>

\* lines 158-170
TaskParse ==
    /\ tpc = "parse"
    /\ rec' = StatusFromHtml(html)
    /\ tpc' = IF StatusFromHtml(html).raised THEN "raised" ELSE "returned"
    /\ UNCHANGED <<html, reqs, lret, spc, collectVars, raceVars, filterVars, pipeVars, mainVars, probeVars, reportVars, saveVars, runVars>>

NextTask ==
    \/ TaskProbe1
    \/ LoginGetRoot
    \/ LoginPost
    \/ LoginGetTarget
    \/ TaskProbe2
    \/ TaskParse

SpecTask == TaskInit /\ [][NextTask]_vars

-----------------------------------------------------------------------------
(* Claims about the requests of a task                                     *)

IsGet(q, url) == q.method = "GET" /\ q.url = url /\ q.data = NoData

\* C16: login_if_needed first GETs the root; with the login marker in the
\* body it issues exactly one POST with empty userID and password to the
\* form's action, then one GET of the redirect target, and returns that
\* body; without the marker it issues no POST and returns the root body; a
\* non-2xx response or a network error at any step raises at once, with no
\* further request and no retry.
C16_LoginGate ==
    LET L == LoginReqs
        n == Len(L)
        root == L[1].resp
        Failure(i) == L[i].resp.kind = "exc" \/ ~L[i].resp.ok
        finished == tpc \in {"probe2", "parse", "returned"} \/ (tpc = "raised" /\ rec.exc # "ValueError")
    IN  /\ n <= 3
        /\ tpc \in {"post", "target", "probe2"} => n >= 1
        /\ n >= 1 => IsGet(L[1], "<base>/")
        /\ n >= 2 =>
              /\ ~Failure(1) /\ IsLoginPage(root.page)
              /\ L[2].method = "POST"
              /\ L[2].url = "<base>" \o FormAction(root.page)
              /\ L[2].data = [userID |-> "", password |-> "", uri |-> FormUri(root.page)]
        /\ n >= 3 =>
              /\ ~Failure(2)
              /\ IsGet(L[3], Target(FormUri(root.page)))
        /\ \A i \in 1..n :
              Failure(i) =>
                  /\ i = n
                  /\ tpc = "raised" /\ rec = Raise(ExcOf(L[i].resp))
                  /\ reqs[Len(reqs)] = L[i]
        /\ (n >= 1 /\ tpc \in {"probe2", "parse", "returned"}) =>
              /\ \A i \in 1..n : ~Failure(i)
              /\ IF IsLoginPage(root.page)
                 THEN n = 3 /\ lret = L[3].resp.page
                 ELSE n = 1 /\ lret = root.page
        /\ (n >= 1 /\ finished) =>
              LET lg == login_if_needed(root, IF n >= 2 THEN L[2].resp ELSE Failed,
                                        IF n >= 3 THEN L[3].resp ELSE Failed)
              IN  /\ lg.raised = (tpc = "raised")
                  /\ Len(lg.reqs) = n
                  /\ ~lg.raised => lg.text = lret

\* the login form was met, the blank credentials were posted to its action
\* and the target's body came back
C16_Witness ==
    /\ tpc = "probe2"
    /\ Len(LoginReqs) = 3
    /\ LoginReqs[2].url = "<base>/checkLogin.cgi"
    /\ LoginReqs[2].data = [userID |-> "", password |-> "", uri |-> "/rps/"]
    /\ LoginReqs[3].url = "<base>/rps/"
    /\ lret = TonerPage50

\* C20: no status-endpoint candidate request is issued before the login
\* check of the task (the GET of the root, and the credential replay when
\* challenged) has completed.
C20_LoginBeforeProbe ==
    \A i \in 1..Len(reqs) :
        reqs[i].by = "probe" =>
            /\ \E j \in 1..(i - 1) : reqs[j].by = "login"
            /\ \A j \in (i + 1)..Len(reqs) : reqs[j].by # "login"

-----------------------------------------------------------------------------
(* collect_all                                                             *)

MaxPrinters == 2

Printer(name, base_url, address) == [name |-> name, base_url |-> base_url, address |-> address]

\* the configured printers the input lists are drawn from; a list may name
\* a printer twice
PrinterPool ==
    {Printer("A", "https://a/", "Room 1"), Printer("B", "https://b/", None)}

PrinterLists == UNION {[1..n -> PrinterPool] : n \in 0..MaxPrinters}

\* a page with cstInfo whose remaining amount is no integer
BadCstPage ==
    [PlainPage EXCEPT !.cstVar = CstVar(TRUE, <<Entry(N_Drawer1, JStr(<<"x">>), JStr(<<"3">>))>>)]

\* a telemetry page: black toner at 0, Drawer 2 empty by its icon
LowPage ==
    [PlainPage EXCEPT
        !.tonerVar = TonerVar([k \in TonerKeys |-> IF k = "tonerKVol" THEN <<"0">> ELSE T_50]),
        !.iconRows = <<[label |-> N_Drawer2, icon |-> "00"], [label |-> N_MPTray, icon |-> "10"]>>]

AllFailed == <<Failed, Failed, Failed>>
AllLogin  == <<Http(TRUE, LoginPage), Http(TRUE, LoginPage), Http(TRUE, LoginPage)>>

\* every request times out
NetDown == Network(AllFailed, Failed, Failed, Failed, AllFailed)
\* every request is answered 404 or refused
NetRefused ==
    Network(<<Http(FALSE, PlainPage), Failed, Http(FALSE, PlainPage)>>,
            Http(FALSE, PlainPage), Failed, Failed, AllFailed)
\* the status endpoint answers first
NetStatus ==
    Network(<<Http(TRUE, LowPage), Http(TRUE, PlainPage), Failed>>,
            Http(TRUE, PlainPage), Failed, Failed, AllFailed)
\* the device shows its login page and then answers 500 to GET /
NetLoginError == Network(AllLogin, Http(FALSE, PlainPage), Failed, Failed, AllFailed)
\* the blank login is accepted and the status page shows up after it
NetLoginOk ==
    Network(AllLogin, Http(TRUE, LoginPage), Http(TRUE, PlainPage), Http(TRUE, PlainPage),
            <<Http(TRUE, TonerPage50), Failed, Failed>>)
\* the blank login is not accepted: the login page shows up again
NetLoginStuck ==
    Network(AllLogin, Http(TRUE, LoginPage), Http(TRUE, LoginPage), Http(TRUE, LoginPage),
            AllLogin)
\* the status page carries a cstInfo that int() rejects
NetBadCst ==
    Network(<<Http(TRUE, BadCstPage), Failed, Failed>>, Http(TRUE, PlainPage), Failed, Failed,
            AllFailed)

Networks == {NetDown, NetRefused, NetStatus, NetLoginError, NetLoginOk, NetLoginStuck, NetBadCst}

\* no network yet: the task of the future has not run
NoNet == Network(<<>>, NoResp, NoResp, NoResp, <<>>)

\* the keys of futs if the dict were keyed by printer: one per distinct printer
FutureIds_ByPrinter(prs) ==
    {i \in 1..Len(prs) : \A j \in 1..(i - 1) : prs[j] # prs[i]}

\* line 213: futs maps each future to its printer; a future per element of
\* the list, identified here by the element's position
FutureIds(prs) == 1..Len(prs)

\* lines 216-221: the row of a future's printer, updated with the task's
\* data or given the failure's description
MakeRow(pr, out) ==
    LET row == [name |-> pr.name, url |-> pr.base_url,
                address |-> IF pr.address = None THEN "" ELSE pr.address,
                errors |-> <<>>, toner |-> EmptyMap, paper |-> EmptyMap]
    IN  IF out.raised
        THEN [row EXCEPT !.errors = Append(@, "Failed to fetch: " \o out.exc)]
        ELSE [row EXCEPT !.toner = out.data.toner, !.paper = out.data.paper,
                         !.errors = out.data.errors]

CollectInit ==
    /\ printers \in PrinterLists
    /\ scen = <<>> /\ fut = <<>> /\ outcome = <<>>
    /\ yielded = {} /\ rows = <<>> /\ rowFut = <<>> /\ cpc = "start"
    /\ rstate = [c \in Candidates |-> "idle"]
    /\ resp = [c \in Candidates |-> NoResp]
    /\ observed = <<>> /\ last_ok = BlankPage /\ matched = FALSE
    /\ ret = BlankPage /\ rpc = "idle"
    /\ html = BlankPage /\ rec = NoRec /\ spc = "idle"
    /\ tpc = "idle" /\ reqs = <<>> /\ lret = BlankPage
    /\ conn = NoStatus /\ submitted = <<>> /\ fpc = "idle"
    /\ pstep = <<>> /\ pstate = <<>> /\ logs = <<>> /\ okflag = <<>> /\ answer = <<>>
    /\ results_map = <<>>
    /\ purl = "" /\ pnet = <<>> /\ tried = <<>> /\ verdict = [done |-> FALSE]
    /\ html_rows = <<>> /\ html_errors = <<>> /\ hpc = "idle"
    /\ fs_dir = <<>> /\ fs_data = <<>> /\ wfd = <<>> /\ wpc = <<>>
    /\ files = <<>> /\ json_in = "(None)" /\ apc = "idle"

\* lines 212-213: one task per printer is submitted
Submit ==
    /\ cpc = "start"
    /\ fut' = [i \in FutureIds(printers) |-> "running"]
    /\ scen' = [i \in FutureIds(printers) |-> NoNet]
    /\ outcome' = [i \in FutureIds(printers) |-> NoRec]
    /\ cpc' = "collect"
    /\ UNCHANGED <<printers, yielded, rows, rowFut, raceVars, statusVars, taskVars, filterVars, pipeVars, mainVars, probeVars, reportVars, saveVars, runVars>>

\* lines 208-210: the task of future i runs fetch_printer_status against
\* whatever the network does, and returns or raises
TaskFinish(i) ==
    /\ cpc = "collect"
    /\ fut[i] = "running"
    /\ \E net \in Networks :
          /\ scen' = [scen EXCEPT ![i] = net]
          /\ outcome' = [outcome EXCEPT ![i] = fetch_printer_status(net)]
    /\ fut' = [fut EXCEPT ![i] = "done"]
    /\ UNCHANGED <<printers, yielded, rows, rowFut, cpc, raceVars, statusVars, taskVars, filterVars, pipeVars, mainVars, probeVars, reportVars, saveVars, runVars>>

\* Collect without the try/except of lines 217-221: fut.result() re-raises
\* the task's exception out of collect_all
Collect_NoCatch(i) ==
    /\ cpc = "collect"
    /\ fut[i] = "done"
    /\ i \notin yielded
    /\ IF outcome[i].raised
       THEN cpc' = "aborted" /\ UNCHANGED <<rows, rowFut, yielded>>
       ELSE /\ rows' = Append(rows, MakeRow(printers[i], outcome[i]))
            /\ rowFut' = Append(rowFut, i)
            /\ yielded' = yielded \cup {i}
            /\ cpc' = cpc
    /\ UNCHANGED <<printers, scen, fut, outcome, raceVars, statusVars, taskVars, filterVars, pipeVars, mainVars, probeVars, reportVars, saveVars, runVars>>

\* lines 214-222: as_completed yields the finished future i; its row is built
\* and appended
Collect(i) ==
    /\ cpc = "collect"
    /\ fut[i] = "done"
    /\ i \notin yielded
    /\ rows' = Append(rows, MakeRow(printers[i], outcome[i]))
    /\ rowFut' = Append(rowFut, i)
    /\ yielded' = yielded \cup {i}
    /\ UNCHANGED <<printers, scen, fut, outcome, cpc, raceVars, statusVars, taskVars, filterVars, pipeVars, mainVars, probeVars, reportVars, saveVars, runVars>>

\* line 223: every future was yielded
CollectReturn ==
    /\ cpc = "collect"
    /\ yielded = DOMAIN fut
    /\ cpc' = "returned"
    /\ UNCHANGED <<printers, scen, fut, outcome, yielded, rows, rowFut, raceVars, statusVars, taskVars, filterVars, pipeVars, mainVars, probeVars, reportVars, saveVars, runVars>>

NextCollect ==
    \/ Submit
    \/ \E i \in DOMAIN fut : TaskFinish(i)
    \/ \E i \in DOMAIN fut : Collect(i)
    \/ CollectReturn

Spec == CollectInit /\ [][NextCollect]_vars

-----------------------------------------------------------------------------
(* Claims about collect_all                                                *)

\* C1: the returned list holds exactly one record per input printer, for
\* lists with duplicates and the empty list, whatever tasks fail.
C1_OneRowPerPrinter == cpc = "returned" => Len(rows) = Len(printers)

\* a list naming one printer twice was collected, one task failing and the
\* other not
C1_Witness ==
    /\ cpc = "returned"
    /\ Len(printers) = 2
    /\ printers[1] = printers[2]
    /\ \E i, j \in DOMAIN outcome : outcome[i].raised /\ ~outcome[j].raised
    /\ Len(rows) = 2

\* C2: the i-th record of the output belongs to the i-th printer of the
\* input, for every order in which the tasks complete.
C2_InputOrder ==
    cpc = "returned" =>
        \A i \in 1..Len(rows) :
            /\ i <= Len(printers)
            /\ rows[i].name = printers[i].name
            /\ rows[i].url = printers[i].base_url

\* C3: every record returned, of a task that succeeded or failed, has a toner
\* mapping with exactly the four colorant keys and a paper mapping with
\* exactly the five tray keys.
C3_FullKeySets ==
    cpc = "returned" =>
        \A j \in 1..Len(rows) :
            /\ DOMAIN rows[j].toner = TonerSet
            /\ DOMAIN rows[j].paper = DrawerSet

\* the rows built from future i
RowsOf(i) == {j \in 1..Len(rows) : rowFut[j] = i}

\* C4: a task that raises never aborts the batch: at the return every
\* printer has one record, a printer whose task returned has that task's
\* result, and a printer whose task raised has exactly one error string, the
\* description of the fetch failure.
C4_FailureIsolated ==
    /\ cpc \in {"start", "collect", "returned"}
    /\ cpc = "returned" =>
          \A i \in 1..Len(printers) :
              /\ Cardinality(RowsOf(i)) = 1
              /\ \A j \in RowsOf(i) :
                    /\ rows[j].name = printers[i].name
                    /\ rows[j].url = printers[i].base_url
                    /\ outcome[i].raised =>
                          /\ Len(rows[j].errors) = 1
                          /\ rows[j].errors[1] = "Failed to fetch: " \o outcome[i].exc
                    /\ ~outcome[i].raised =>
                          /\ rows[j].toner = outcome[i].data.toner
                          /\ rows[j].paper = outcome[i].data.paper
                          /\ rows[j].errors = outcome[i].data.errors

\* two printers were collected; the task of one raised and the record of
\* the other shows the readings its own task returned
C4_Witness ==
    /\ cpc = "returned"
    /\ Len(printers) = 2
    /\ \E i, j \in DOMAIN outcome :
          /\ outcome[i].raised
          /\ ~outcome[j].raised
          /\ outcome[j].data.toner["Black"] = <<"0", "%">>
          /\ \E k \in RowsOf(j) : rows[k].toner["Black"] = <<"0", "%">>
          /\ \E k \in RowsOf(i) : Len(rows[k].errors) = 1

IsFailure(r) == r.kind = "exc" \/ (r.kind = "http" /\ ~r.ok)

\* every request of the task fails: timeout, error or non-2xx
AllCallsFail(net) ==
    /\ \A i \in 1..Len(net.probe1) : IsFailure(net.probe1[i])
    /\ \A i \in 1..Len(net.probe2) : IsFailure(net.probe2[i])
    /\ IsFailure(net.root) /\ IsFailure(net.post) /\ IsFailure(net.target)

\* C5: for a printer whose every network call fails the task does not raise
\* and the record has all toner and paper values "N/A" and a non-empty
\* errors list.
C5_DownPrinterReported ==
    cpc = "returned" =>
        \A j \in 1..Len(rows) :
            AllCallsFail(scen[rowFut[j]]) =>
                /\ ~outcome[rowFut[j]].raised
                /\ \A c \in TonerSet : c \in DOMAIN rows[j].toner /\ rows[j].toner[c] = NA
                /\ \A d \in DrawerSet : d \in DOMAIN rows[j].paper /\ rows[j].paper[d] = PaperNA
                /\ rows[j].errors # <<>>

\* the task met the login page, replayed the blank credentials without a
\* failure, and the page it got after that is still a login page
LoginStuck(net) ==
    /\ IsLoginPage(fetch_best_status_html(net.probe1))
    /\ ~login_if_needed(net.root, net.post, net.target).raised
    /\ IsLoginPage(net.root.page)
    /\ IsLoginPage(fetch_best_status_html(net.probe2))

\* C17: when a login challenge is detected and the page obtained after the
\* blank-credential replay is still a login page, the printer's record has
\* all readings "N/A" and a single error string describing the failure.
C17_AuthFailureReported ==
    cpc = "returned" =>
        \A j \in 1..Len(rows) :
            LoginStuck(scen[rowFut[j]]) =>
                /\ \A c \in TonerSet : c \in DOMAIN rows[j].toner => rows[j].toner[c] = NA
                /\ \A d \in DrawerSet : d \in DOMAIN rows[j].paper => rows[j].paper[d] = PaperNA
                /\ Len(rows[j].errors) = 1

-----------------------------------------------------------------------------
(* filter_up_printers (app.py)                                             *)
(*                                                                         *)
(* The connectivity document, as try_load_json gives it:                   *)
(*   [kind |-> "none"]     None: the file is missing or holds no JSON      *)
(*   [kind |-> "array"]    a JSON value that is no object                  *)
(*   [kind |-> "object", members |-> f]  an object; f maps each key to its *)
(*                         value: a list of elements, a boolean or another *)
(*                         value                                           *)
(* An element of a list is an object with or without a string "url", a     *)
(* string, or another value.                                               *)

JList(items) == [t |-> "list", items |-> items]
JBool(b)     == [t |-> "bool", b |-> b]
JNumber      == [t |-> "other"]

EDict(url) == [t |-> "dict", url |-> url]
EStr(u)    == [t |-> "str", s |-> u]
ENumber    == [t |-> "other"]

StatusObject(f) == [kind |-> "object", members |-> f]

U_a == "https://a/"
U_b == "https://b/"
U_c == "https://c/"

\* the keys and values the documents of the model are made of
StatusKeys == {"up", "up_urls", "down", "down_urls", U_a, U_b}

StatusValues ==
    {JList(<<>>), JList(<<EDict(U_a)>>), JList(<<EStr(U_b), ENumber>>),
     JList(<<EDict(None), EStr(U_c)>>), JBool(TRUE), JBool(FALSE), JNumber}

MaxMembers == 2

StatusDocs ==
    {NoStatus, [kind |-> "array"]} \cup
    {StatusObject(f) : f \in UNION {[K -> StatusValues] :
                                     K \in {S \in SUBSET StatusKeys : Cardinality(S) <= MaxMembers}}}

\* lines 314-317, 322-325: the URLs of status["up"] or status["down"]
UrlsOfEntries(f, key) ==
    IF key \in DOMAIN f /\ f[key].t = "list"
    THEN {f[key].items[i].url :
             i \in {j \in 1..Len(f[key].items) :
                       f[key].items[j].t = "dict" /\ f[key].items[j].url # None}}
         \cup {f[key].items[i].s : i \in {j \in 1..Len(f[key].items) : f[key].items[j].t = "str"}}
    ELSE {}

\* lines 318-319, 326-327: the strings of status["up_urls"] or status["down_urls"]
UrlsOfStrings(f, key) ==
    IF key \in DOMAIN f /\ f[key].t = "list"
    THEN {f[key].items[i].s : i \in {j \in 1..Len(f[key].items) : f[key].items[j].t = "str"}}
    ELSE {}

\* lines 330-332: the keys with a boolean value b
UrlsOfFlags(f, b) == {k \in DOMAIN f : f[k].t = "bool" /\ f[k].b = b}

up_urls(f)   == UrlsOfEntries(f, "up") \cup UrlsOfStrings(f, "up_urls") \cup UrlsOfFlags(f, TRUE)
down_urls(f) == UrlsOfEntries(f, "down") \cup UrlsOfStrings(f, "down_urls") \cup UrlsOfFlags(f, FALSE)

\* the test of lines 340-343 with the down list applied beside the up list
Keeps_DownWins(u, up, down) == (up # {} /\ u \in up /\ u \notin down) \/ (up = {} /\ u \notin down)

\* lines 340-343: whether the printer with URL u is appended to out
Keeps(u, up, down) == (up # {} /\ u \in up) \/ (up = {} /\ u \notin down)

\* lines 337-344
RECURSIVE FilterLoop(_, _, _, _)
FilterLoop(prs, up, down, out) ==
    IF prs = <<>> THEN out
    ELSE FilterLoop(Tail(prs), up, down,
                    IF Keeps(Head(prs).base_url, up, down) THEN Append(out, Head(prs)) ELSE out)

filter_up_printers(prs, doc) ==
    IF doc.kind # "object" THEN prs
    ELSE IF up_urls(doc.members) = {} /\ down_urls(doc.members) = {} THEN prs
    ELSE FilterLoop(prs, up_urls(doc.members), down_urls(doc.members), <<>>)

FilterInit ==
    /\ printers \in PrinterLists
    /\ conn \in StatusDocs /\ submitted = <<>> /\ fpc = "start"
    /\ scen = <<>> /\ fut = <<>> /\ outcome = <<>>
    /\ yielded = {} /\ rows = <<>> /\ rowFut = <<>> /\ cpc = "idle"
    /\ rstate = [c \in Candidates |-> "idle"]
    /\ resp = [c \in Candidates |-> NoResp]
    /\ observed = <<>> /\ last_ok = BlankPage /\ matched = FALSE
    /\ ret = BlankPage /\ rpc = "idle"
    /\ html = BlankPage /\ rec = NoRec /\ spc = "idle"
    /\ tpc = "idle" /\ reqs = <<>> /\ lret = BlankPage
    /\ pstep = <<>> /\ pstate = <<>> /\ logs = <<>> /\ okflag = <<>> /\ answer = <<>>
    /\ results_map = <<>>
    /\ purl = "" /\ pnet = <<>> /\ tried = <<>> /\ verdict = [done |-> FALSE]
    /\ html_rows = <<>> /\ html_errors = <<>> /\ hpc = "idle"
    /\ fs_dir = <<>> /\ fs_data = <<>> /\ wfd = <<>> /\ wpc = <<>>
    /\ files = <<>> /\ json_in = "(None)" /\ apc = "idle"

\* app.py main, line 363
Filter ==
    /\ fpc = "start"
    /\ submitted' = filter_up_printers(printers, conn)
    /\ fpc' = "done"
    /\ UNCHANGED <<conn, collectVars, raceVars, statusVars, taskVars, pipeVars, mainVars, probeVars, reportVars, saveVars, runVars>>

SpecFilter == FilterInit /\ [][Filter]_vars

\* the up and down URLs the document yields
UpOf(doc)   == IF doc.kind = "object" THEN up_urls(doc.members) ELSE {}
DownOf(doc) == IF doc.kind = "object" THEN down_urls(doc.members) ELSE {}

\* C18: with a non-empty set of up URLs the printers submitted are the input
\* printers whose URL is in that set, in input order; with down URLs only,
\* those not listed as down; with a missing file, a document that is no
\* object or one that yields neither up nor down URLs, the input list.
C18_FilterUp ==
    fpc = "done" =>
        LET IsUp(pr) == pr.base_url \in UpOf(conn)
            NotDown(pr) == pr.base_url \notin DownOf(conn)
        IN  /\ UpOf(conn) # {} => submitted = SelectSeq(printers, IsUp)
            /\ (UpOf(conn) = {} /\ DownOf(conn) # {}) => submitted = SelectSeq(printers, NotDown)
            /\ (UpOf(conn) = {} /\ DownOf(conn) = {}) => submitted = printers
            /\ conn.kind # "object" => submitted = printers

\* the document lists printer A as up and as down, the input is [B, A]:
\* A alone is submitted
C18_Witness ==
    /\ fpc = "done"
    /\ conn = StatusObject([k \in {"up", U_a} |-> IF k = "up" THEN JList(<<EDict(U_a)>>) ELSE JBool(FALSE)])
    /\ Len(printers) = 2 /\ printers[1].base_url = U_b /\ printers[2].base_url = U_a
    /\ submitted = <<printers[2]>>

-----------------------------------------------------------------------------
(* run_check (server.py): POST /run-check, one run per request             *)

MaxRequests == 2

Requests == 1..MaxRequests

\* lines 43-58
cmds == <<"connectivity.py", "app.py", "app-html.py">>

\* the exit codes a step can end with
ReturnCodes == {0, 1, 2}

\* the loop goes on after a failed step
Breaks_Never(rc) == FALSE

\* lines 69-71: a non-zero exit code ends the loop
Breaks(rc) == rc # 0

PipeInit ==
    /\ pstep = [r \in Requests |-> 1]
    /\ results_map = <<>>
    /\ purl = "" /\ pnet = <<>> /\ tried = <<>> /\ verdict = [done |-> FALSE]
    /\ html_rows = <<>> /\ html_errors = <<>> /\ hpc = "idle"
    /\ fs_dir = <<>> /\ fs_data = <<>> /\ wfd = <<>> /\ wpc = <<>>
    /\ files = <<>> /\ json_in = "(None)" /\ apc = "idle"
    /\ pstate = [r \in Requests |-> "run"]
    /\ logs = [r \in Requests |-> <<>>]
    /\ okflag = [r \in Requests |-> TRUE]
    /\ answer = [r \in Requests |-> [code |-> 0, ok |-> FALSE]]
    /\ printers = <<>> /\ scen = <<>> /\ fut = <<>> /\ outcome = <<>>
    /\ yielded = {} /\ rows = <<>> /\ rowFut = <<>> /\ cpc = "idle"
    /\ rstate = [c \in Candidates |-> "idle"]
    /\ resp = [c \in Candidates |-> NoResp]
    /\ observed = <<>> /\ last_ok = BlankPage /\ matched = FALSE
    /\ ret = BlankPage /\ rpc = "idle"
    /\ html = BlankPage /\ rec = NoRec /\ spc = "idle"
    /\ tpc = "idle" /\ reqs = <<>> /\ lret = BlankPage
    /\ conn = NoStatus /\ submitted = <<>> /\ fpc = "idle"

\* lines 61-71: one turn of the loop; run() waits for the process to exit
RunStep(r) ==
    /\ pstate[r] = "run"
    /\ \E rc \in ReturnCodes :
          /\ logs' = [logs EXCEPT ![r] = Append(@, [cmd |-> cmds[pstep[r]], rc |-> rc])]
          /\ okflag' = [okflag EXCEPT ![r] = IF rc # 0 THEN FALSE ELSE @]
          /\ IF Breaks(rc) \/ pstep[r] = Len(cmds)
             THEN pstate' = [pstate EXCEPT ![r] = "respond"] /\ pstep' = pstep
             ELSE pstate' = pstate /\ pstep' = [pstep EXCEPT ![r] = @ + 1]
    /\ UNCHANGED <<answer, collectVars, raceVars, statusVars, taskVars, filterVars, mainVars, probeVars, reportVars, saveVars, runVars>>

\* lines 79-80: run() raised (the step did not end within 600 seconds, or
\* the interpreter could not be started)
RunRaises(r) ==
    /\ pstate[r] = "run"
    /\ answer' = [answer EXCEPT ![r] = [code |-> 500, ok |-> FALSE]]
    /\ pstate' = [pstate EXCEPT ![r] = "done"]
    /\ UNCHANGED <<pstep, logs, okflag, collectVars, raceVars, statusVars, taskVars, filterVars, mainVars, probeVars, reportVars, saveVars, runVars>>

\* lines 73-77
Respond(r) ==
    /\ pstate[r] = "respond"
    /\ answer' = [answer EXCEPT ![r] = [code |-> IF okflag[r] THEN 200 ELSE 500, ok |-> okflag[r]]]
    /\ pstate' = [pstate EXCEPT ![r] = "done"]
    /\ UNCHANGED <<pstep, logs, okflag, collectVars, raceVars, statusVars, taskVars, filterVars, mainVars, probeVars, reportVars, saveVars, runVars>>

NextPipe ==
    \/ \E r \in Requests : RunStep(r)
    \/ \E r \in Requests : RunRaises(r)
    \/ \E r \in Requests : Respond(r)

SpecPipe == PipeInit /\ [][NextPipe]_vars

\* the steps of request r that exited, in the order they ran
AllZero(r) == Len(logs[r]) = Len(cmds) /\ \A i \in 1..Len(logs[r]) : logs[r][i].rc = 0

-----------------------------------------------------------------------------
(* main (app.py): the tasks of the submitted printers and the rows written *)

\* the submitted printers: A2 is configured with the URL of A
MainPool == PrinterPool \cup {Printer("A2", "https://a/", None)}

MainLists == UNION {[1..n -> MainPool] : n \in 0..MaxPrinters}

\* what collect_status_for_printer can return (line 269)
ResultFine ==
    [toner |-> [c \in TonerSet |-> <<"5", "0", "%">>],
     paper |-> [d \in DrawerSet |-> "3 Bar"],
     errors |-> <<>>]

ResultLow ==
    [toner |-> [c \in TonerSet |-> IF c = "Black" THEN <<"0", "%">> ELSE <<"5", "0", "%">>],
     paper |-> [d \in DrawerSet |-> IF d = "Drawer 2" THEN "Empty" ELSE "3 Bar"],
     errors |-> <<"The black toner is empty.">>]

\* what a task ends with: a result, or an exception
MainOutcomes == {Return(ResultFine), Return(ResultLow), Raise("ConnectionError")}

\* lines 378-382: the pair (res, err) stored for a future's outcome
ResultPair(out) ==
    IF out.raised
    THEN [res |-> None, err |-> "Failed to fetch: " \o out.exc]
    ELSE [res |-> out.data, err |-> None]

\* line 389: results_map.get(base, (None, "No result"))
Lookup(map, base) ==
    IF base \in DOMAIN map THEN map[base] ELSE [res |-> None, err |-> "No result"]

\* lines 380, 382: results_map[pr.base_url] = pair
Store(map, base, pair) ==
    [u \in DOMAIN map \cup {base} |-> IF u = base THEN pair ELSE map[u]]

\* lines 391-425: the row of printer pr for the pair found under its URL
MainRow(pr, pair) ==
    IF pair.err # None
    THEN [name |-> pr.name, url |-> pr.base_url, address |-> "",
          toner |-> [c \in TonerSet |-> NA], paper |-> AllNA, errors |-> <<pair.err>>]
    ELSE [name |-> pr.name, url |-> pr.base_url, address |-> "",
          toner |-> [c \in TonerSet |->
                        IF c \in DOMAIN pair.res.toner THEN pair.res.toner[c] ELSE NA],
          paper |-> [d \in DrawerSet |->
                        IF d \in DOMAIN pair.res.paper THEN pair.res.paper[d] ELSE PaperNA],
          errors |-> pair.res.errors]

MainInit ==
    /\ printers \in MainLists
    /\ scen = <<>> /\ fut = <<>> /\ outcome = <<>>
    /\ yielded = {} /\ rows = <<>> /\ rowFut = <<>> /\ cpc = "start"
    /\ results_map = <<>>
    /\ purl = "" /\ pnet = <<>> /\ tried = <<>> /\ verdict = [done |-> FALSE]
    /\ html_rows = <<>> /\ html_errors = <<>> /\ hpc = "idle"
    /\ fs_dir = <<>> /\ fs_data = <<>> /\ wfd = <<>> /\ wpc = <<>>
    /\ files = <<>> /\ json_in = "(None)" /\ apc = "idle"
    /\ rstate = [c \in Candidates |-> "idle"]
    /\ resp = [c \in Candidates |-> NoResp]
    /\ observed = <<>> /\ last_ok = BlankPage /\ matched = FALSE
    /\ ret = BlankPage /\ rpc = "idle"
    /\ html = BlankPage /\ rec = NoRec /\ spc = "idle"
    /\ tpc = "idle" /\ reqs = <<>> /\ lret = BlankPage
    /\ conn = NoStatus /\ submitted = <<>> /\ fpc = "idle"
    /\ pstep = <<>> /\ pstate = <<>> /\ logs = <<>> /\ okflag = <<>> /\ answer = <<>>

\* line 371: one task per printer of the list; futs maps each future to its
\* printer
MainSubmit ==
    /\ cpc = "start"
    /\ fut' = [i \in FutureIds(printers) |-> "running"]
    /\ outcome' = [i \in FutureIds(printers) |-> NoRec]
    /\ cpc' = "collect"
    /\ UNCHANGED <<printers, scen, yielded, rows, rowFut, results_map, raceVars, statusVars, taskVars, filterVars, pipeVars, probeVars, reportVars, saveVars, runVars>>

\* collect_status_for_printer of future i returns or raises
MainTaskFinish(i) ==
    /\ cpc = "collect"
    /\ fut[i] = "running"
    /\ \E out \in MainOutcomes : outcome' = [outcome EXCEPT ![i] = out]
    /\ fut' = [fut EXCEPT ![i] = "done"]
    /\ UNCHANGED <<printers, scen, yielded, rows, rowFut, cpc, results_map, raceVars, statusVars, taskVars, filterVars, pipeVars, probeVars, reportVars, saveVars, runVars>>

\* lines 376-382: as_completed yields the finished future i and its outcome
\* is stored under the URL of its printer
MainYield(i) ==
    /\ cpc = "collect"
    /\ fut[i] = "done"
    /\ i \notin yielded
    /\ results_map' = Store(results_map, printers[i].base_url, ResultPair(outcome[i]))
    /\ yielded' = yielded \cup {i}
    /\ UNCHANGED <<printers, scen, fut, outcome, rows, rowFut, cpc, raceVars, statusVars, taskVars, filterVars, pipeVars, probeVars, reportVars, saveVars, runVars>>

\* lines 384-427: every future was yielded; the rows are built in the order
\* of the list and written
MainWrite ==
    /\ cpc = "collect"
    /\ yielded = DOMAIN fut
    /\ rows' = [i \in 1..Len(printers) |->
                   MainRow(printers[i], Lookup(results_map, printers[i].base_url))]
    /\ cpc' = "written"
    /\ UNCHANGED <<printers, scen, fut, outcome, yielded, rowFut, results_map, raceVars, statusVars, taskVars, filterVars, pipeVars, probeVars, reportVars, saveVars, runVars>>

NextMain ==
    \/ MainSubmit
    \/ \E i \in DOMAIN fut : MainTaskFinish(i)
    \/ \E i \in DOMAIN fut : MainYield(i)
    \/ MainWrite

SpecMain == MainInit /\ [][NextMain]_vars

\* C23: the rows written are one per submitted printer in input order, and
\* each row carries the outcome of the task submitted for that printer,
\* also when two printers of the list have the same URL.
C23_RowsByTask ==
    cpc = "written" =>
        /\ Len(rows) = Len(printers)
        /\ \A i \in 1..Len(printers) :
              /\ rows[i].name = printers[i].name
              /\ rows[i].url = printers[i].base_url
              /\ rows[i] = MainRow(printers[i], ResultPair(outcome[i]))

-----------------------------------------------------------------------------
(* _probe_once (connectivity.py)                                           *)

\* line 39
paths == <<"", "rps/">>

\* the url values of the configuration: with and without the final slash
ProbeUrls == {"https://a", "https://a/"}

\* what session.get can end with: a response with its status code, or one
\* of the exceptions of lines 53-63
StatusCodes == {199, 200, 302, 399, 400, 404, 503}

Answer(code) == [kind |-> "http", code |-> code]
Thrown(exc)  == [kind |-> "exc", exc |-> exc]

ProbeExceptions ==
    {"ConnectTimeout", "ReadTimeout", "SSLError", "ConnectionError", "RequestException"}

PathResponses == {Answer(c) : c \in StatusCodes} \cup {Thrown(e) : e \in ProbeExceptions}

\* lines 53-64: the reason given for each exception
ReasonOf(exc) ==
    CASE exc = "ConnectTimeout" -> "connect_timeout"
      [] exc = "ReadTimeout" -> "read_timeout"
      [] exc = "SSLError" -> "ssl_error"
      [] exc = "ConnectionError" -> "connection_error"
      [] OTHER -> "request_exception"

\* lines 43-47: the url with a single final slash, then the path
TargetOf(url, p) ==
    (IF SubSeq(url, Len(url), Len(url)) # "/" THEN url \o "/" ELSE url) \o p

\* line 50
IsUpCode(code) == 200 <= code /\ code < 400

Verdict(is_up, code, reason) == [done |-> TRUE, is_up |-> is_up, code |-> code, reason |-> reason]
NoVerdict == [done |-> FALSE]

ProbeInit ==
    /\ purl \in ProbeUrls
    /\ pnet \in [1..Len(paths) -> PathResponses]
    /\ tried = <<>>
    /\ verdict = NoVerdict
    /\ html_rows = <<>> /\ html_errors = <<>> /\ hpc = "idle"
    /\ fs_dir = <<>> /\ fs_data = <<>> /\ wfd = <<>> /\ wpc = <<>>
    /\ files = <<>> /\ json_in = "(None)" /\ apc = "idle"
    /\ printers = <<>> /\ scen = <<>> /\ fut = <<>> /\ outcome = <<>>
    /\ yielded = {} /\ rows = <<>> /\ rowFut = <<>> /\ cpc = "idle"
    /\ results_map = <<>>
    /\ rstate = [c \in Candidates |-> "idle"]
    /\ resp = [c \in Candidates |-> NoResp]
    /\ observed = <<>> /\ last_ok = BlankPage /\ matched = FALSE
    /\ ret = BlankPage /\ rpc = "idle"
    /\ html = BlankPage /\ rec = NoRec /\ spc = "idle"
    /\ tpc = "idle" /\ reqs = <<>> /\ lret = BlankPage
    /\ conn = NoStatus /\ submitted = <<>> /\ fpc = "idle"
    /\ pstep = <<>> /\ pstate = <<>> /\ logs = <<>> /\ okflag = <<>> /\ answer = <<>>

\* lines 40-64: one turn of the loop, for the next path
ProbePath ==
    /\ ~verdict.done
    /\ Len(tried) < Len(paths)
    /\ LET i == Len(tried) + 1
           r == pnet[i]
       IN  /\ tried' = Append(tried, TargetOf(purl, paths[i]))
           /\ verdict' = IF r.kind = "exc" THEN Verdict(FALSE, None, ReasonOf(r.exc))
                         ELSE IF IsUpCode(r.code) THEN Verdict(TRUE, r.code, None)
                         ELSE verdict
    /\ UNCHANGED <<purl, pnet, collectVars, raceVars, statusVars, taskVars, filterVars, pipeVars, mainVars, reportVars, saveVars, runVars>>

\* line 67: the loop ended without a return
ProbeBadStatus ==
    /\ ~verdict.done
    /\ Len(tried) = Len(paths)
    /\ verdict' = Verdict(FALSE, None, "bad_status")
    /\ UNCHANGED <<purl, pnet, tried, collectVars, raceVars, statusVars, taskVars, filterVars, pipeVars, mainVars, reportVars, saveVars, runVars>>

NextProbe == ProbePath \/ ProbeBadStatus

SpecProbe == ProbeInit /\ [][NextProbe]_vars

\* the path i answers with a status in 200..399
AnswersUp(i) == pnet[i].kind = "http" /\ pnet[i].code >= 200 /\ pnet[i].code <= 399

\* C24: both paths are tried: the printer is reported up whenever at least
\* one of the two paths answers with a status in 200..399, and is reported
\* down only after both paths failed to do so.
C24_BothPathsTried ==
    verdict.done =>
        /\ verdict.is_up <=> \E i \in 1..Len(paths) : AnswersUp(i)
        /\ ~verdict.is_up => Len(tried) = Len(paths)

-----------------------------------------------------------------------------
(* build_html (app_html.py): the Errors section                            *)

\* app_html.py line 10: the trays the renderer looks at
HTML_DRAWERS == <<"Drawer 1", "Drawer 2", "Drawer 3", "Drawer 4">>

\* re.sub(r"\s+", " ", ...): each run of blanks becomes one blank
RECURSIVE CollapseBlanks(_, _, _)
CollapseBlanks(s, i, afterBlank) ==
    IF i > Len(s) THEN ""
    ELSE IF CharAt(s, i) = " "
         THEN (IF afterBlank THEN "" ELSE " ") \o CollapseBlanks(s, i + 1, TRUE)
         ELSE CharAt(s, i) \o CollapseBlanks(s, i + 1, FALSE)

\* str.strip() of a string whose runs of blanks are single
StrStrip(s) ==
    LET from == IF Len(s) > 0 /\ CharAt(s, 1) = " " THEN 2 ELSE 1
        to   == IF Len(s) > 0 /\ CharAt(s, Len(s)) = " " THEN Len(s) - 1 ELSE Len(s)
    IN  IF from > to THEN "" ELSE SubSeq(s, from, to)

\* lines 23-25; str(x or "") is "" for None
norm_text(x) ==
    IF x = None THEN "" ELSE StrLower(StrStrip(CollapseBlanks(x, 1, FALSE)))

\* lines 27-29
is_empty_text(txt) ==
    LET t == norm_text(txt)
    IN  t # "" /\ (SubSeq(t, 1, 1) = "0" \/ StrContains("empty", t) \/ StrContains("no paper", t))

\* paper.get(d): None for a key the row's paper does not have
PaperGet(paper, d) == IF d \in DOMAIN paper THEN paper[d] ELSE None

\* line 192
drawers_empty(paper) ==
    \E i \in 1..Len(HTML_DRAWERS) : is_empty_text(PaperGet(paper, HTML_DRAWERS[i]))

\* line 194: whether the error e of a row is left out
Skips(e, paper) == StrContains("no paper", StrLower(e)) /\ ~drawers_empty(paper)

\* lines 190-196 for one row: its lines of the Errors section
RECURSIVE ErrorLines(_, _, _)
ErrorLines(name, errs, paper) ==
    IF errs = <<>> THEN <<>>
    ELSE (IF Skips(Head(errs), paper) THEN <<>> ELSE <<name \o ": " \o Head(errs)>>)
         \o ErrorLines(name, Tail(errs), paper)

\* lines 188-196
RECURSIVE AllErrorLines(_)
AllErrorLines(rs) ==
    IF rs = <<>> THEN <<>>
    ELSE ErrorLines(Head(rs).name, Head(rs).errors, Head(rs).paper) \o AllErrorLines(Tail(rs))

\* the paper readings of the rows: every tray known, the numbered drawers
\* unknown, or no reading at all (the row of a failed task)
ReportPapers ==
    {[d \in DrawerSet |->
         CASE d = "Multi-Purpose Tray" -> mp [] d = "Drawer 1" -> d1 [] d = "Drawer 2" -> d2
           [] OTHER -> PaperNA] :
        mp \in {"Empty", "3 Bar", PaperNA},
        d1 \in {"Empty", " No  Paper ", "0 sheets", "1 Bar", "3 Bar", PaperNA},
        d2 \in {"Empty", "3 Bar", PaperNA}}
    \cup {EmptyMap}

ReportErrors ==
    {<<>>, <<"No paper.">>, <<"Load paper: NO PAPER in tray.">>, <<"Drawer 1 is empty.">>,
     <<"The black toner is low.", "No paper.">>, <<"No paper.", "Paper jam.">>}

ReportRow(name, paper, errs) == [name |-> name, paper |-> paper, errors |-> errs]

\* one row, or the row of printer B after a row of printer A that has
\* "No paper." with only its Multi-Purpose Tray empty
ReportInputs ==
    {<<ReportRow("A", pp, es)>> : pp \in ReportPapers, es \in ReportErrors}
    \cup {<<ReportRow("A", [d \in DrawerSet |-> IF d = "Multi-Purpose Tray" THEN "Empty" ELSE "3 Bar"],
                      <<"No paper.">>),
            ReportRow("B", pp, <<"No paper.">>)>> : pp \in ReportPapers}

ReportInit ==
    /\ html_rows \in ReportInputs /\ html_errors = <<>> /\ hpc = "start"
    /\ fs_dir = <<>> /\ fs_data = <<>> /\ wfd = <<>> /\ wpc = <<>>
    /\ files = <<>> /\ json_in = "(None)" /\ apc = "idle"
    /\ purl = "" /\ pnet = <<>> /\ tried = <<>> /\ verdict = [done |-> FALSE]
    /\ printers = <<>> /\ scen = <<>> /\ fut = <<>> /\ outcome = <<>>
    /\ yielded = {} /\ rows = <<>> /\ rowFut = <<>> /\ cpc = "idle"
    /\ results_map = <<>>
    /\ rstate = [c \in Candidates |-> "idle"]
    /\ resp = [c \in Candidates |-> NoResp]
    /\ observed = <<>> /\ last_ok = BlankPage /\ matched = FALSE
    /\ ret = BlankPage /\ rpc = "idle"
    /\ html = BlankPage /\ rec = NoRec /\ spc = "idle"
    /\ tpc = "idle" /\ reqs = <<>> /\ lret = BlankPage
    /\ conn = NoStatus /\ submitted = <<>> /\ fpc = "idle"
    /\ pstep = <<>> /\ pstate = <<>> /\ logs = <<>> /\ okflag = <<>> /\ answer = <<>>

\* lines 187-196
BuildErrors ==
    /\ hpc = "start"
    /\ html_errors' = AllErrorLines(html_rows)
    /\ hpc' = "done"
    /\ UNCHANGED <<html_rows, collectVars, raceVars, statusVars, taskVars, filterVars, pipeVars, mainVars, probeVars, saveVars, runVars>>

SpecReport == ReportInit /\ [][BuildErrors]_vars

\* the reading v says the tray is empty; it is unknown
SaysEmpty(v) == v # None /\ is_empty_text(v)
Unknown(v) == v = None \/ v = PaperNA

NumberedDrawerEmpty(paper) ==
    \E i \in 1..Len(HTML_DRAWERS) : SaysEmpty(PaperGet(paper, HTML_DRAWERS[i]))
NumberedDrawersUnknown(paper) ==
    \A i \in 1..Len(HTML_DRAWERS) : Unknown(PaperGet(paper, HTML_DRAWERS[i]))
MPTEmpty(paper) == SaysEmpty(PaperGet(paper, "Multi-Purpose Tray"))

\* the line of error j of row i is in the Errors section
Shown(i, j) ==
    \E k \in 1..Len(html_errors) :
        html_errors[k] = html_rows[i].name \o ": " \o html_rows[i].errors[j]

\* C25: an error containing "no paper" is left out of the Errors section
\* only when the Multi-Purpose Tray is the only empty tray of its printer;
\* it is shown whenever a numbered drawer is empty, when the state of the
\* numbered drawers is unknown ("N/A"), and when no tray at all is empty.
C25_NoPaperDroppedOnlyForMPT ==
    hpc = "done" =>
        \A i \in 1..Len(html_rows) : \A j \in 1..Len(html_rows[i].errors) :
            StrContains("no paper", StrLower(html_rows[i].errors[j])) =>
                LET paper == html_rows[i].paper
                IN  /\ ~Shown(i, j) =>
                          /\ MPTEmpty(paper)
                          /\ ~NumberedDrawerEmpty(paper)
                          /\ ~NumberedDrawersUnknown(paper)
                    /\ NumberedDrawerEmpty(paper) => Shown(i, j)

-----------------------------------------------------------------------------
(* save_json (app.py) in the runs of overlapping POST /run-check requests  *)
(*                                                                         *)
(* Each run of run_check starts one app.py with the same -o path           *)
(* (server.py lines 50-54), and app.py calls save_json once (line 427).    *)
(* The directory maps a file name to an inode; an inode holds the chunks   *)
(* written to it.  json.dump writes the document through a buffered file,  *)
(* which reaches the inode in several writes: the document of a run is     *)
(* DocChunks chunks, written one by one at the offset of the run's file.   *)

\* the two file names: path and f"{path}.tmp" (line 42)
OutPath == "app-printers.json"
TmpPath == OutPath \o ".tmp"

DocChunks == 2

\* chunk k of the document that run w writes; run 0 is an earlier,
\* finished run
Chunk(w, k) == [run |-> w, k |-> k]
\* the zero bytes a write beyond the end of a truncated file leaves behind
Hole == [run |-> 0, k |-> 0]

Doc(w) == [k \in 1..DocChunks |-> Chunk(w, k)]

NoInode == 0

\* the inode numbers: one for the earlier output, one for a temporary file
\* an earlier run left behind, one per open() that creates the temporary
\* file
Inodes == 1..(MaxRequests + 2)

FreeInode(data) == CHOOSE n \in Inodes : n \notin DOMAIN data /\ \A m \in Inodes : m < n => m \in DOMAIN data

\* a write of chunk x at position pos of the content c
WriteAt(c, pos, x) ==
    [i \in 1..Max(Len(c), pos) |-> IF i = pos THEN x ELSE IF i <= Len(c) THEN c[i] ELSE Hole]

SaveInit ==
    /\ fs_dir \in {[n \in {OutPath, TmpPath} |-> IF n = OutPath THEN o ELSE t] :
                       o \in {NoInode, 1}, t \in {NoInode, 2}}
    /\ fs_data = [n \in {1, 2} |-> IF n = 1 THEN Doc(0) ELSE <<Chunk(0, 1)>>]
    /\ wfd = [w \in Requests |-> [ino |-> NoInode, off |-> 0]]
    /\ wpc = [w \in Requests |-> "open"]
    /\ files = <<>> /\ json_in = "(None)" /\ apc = "idle"
    /\ html_rows = <<>> /\ html_errors = <<>> /\ hpc = "idle"
    /\ purl = "" /\ pnet = <<>> /\ tried = <<>> /\ verdict = [done |-> FALSE]
    /\ printers = <<>> /\ scen = <<>> /\ fut = <<>> /\ outcome = <<>>
    /\ yielded = {} /\ rows = <<>> /\ rowFut = <<>> /\ cpc = "idle"
    /\ results_map = <<>>
    /\ rstate = [c \in Candidates |-> "idle"]
    /\ resp = [c \in Candidates |-> NoResp]
    /\ observed = <<>> /\ last_ok = BlankPage /\ matched = FALSE
    /\ ret = BlankPage /\ rpc = "idle"
    /\ html = BlankPage /\ rec = NoRec /\ spc = "idle"
    /\ tpc = "idle" /\ reqs = <<>> /\ lret = BlankPage
    /\ conn = NoStatus /\ submitted = <<>> /\ fpc = "idle"
    /\ pstep = <<>> /\ pstate = <<>> /\ logs = <<>> /\ okflag = <<>> /\ answer = <<>>

\* line 43: open(tmp, "w") creates the file, or truncates the one of that
\* name
SaveOpen(w) ==
    /\ wpc[w] = "open"
    /\ IF fs_dir[TmpPath] = NoInode
       THEN LET n == FreeInode(fs_data)
            IN  /\ fs_dir' = [fs_dir EXCEPT ![TmpPath] = n]
                /\ fs_data' = [m \in DOMAIN fs_data \cup {n} |-> IF m = n THEN <<>> ELSE fs_data[m]]
                /\ wfd' = [wfd EXCEPT ![w] = [ino |-> n, off |-> 0]]
       ELSE /\ fs_dir' = fs_dir
            /\ fs_data' = [fs_data EXCEPT ![fs_dir[TmpPath]] = <<>>]
            /\ wfd' = [wfd EXCEPT ![w] = [ino |-> fs_dir[TmpPath], off |-> 0]]
    /\ wpc' = [wpc EXCEPT ![w] = "write"]
    /\ UNCHANGED <<collectVars, raceVars, statusVars, taskVars, filterVars, pipeVars, mainVars, probeVars, reportVars, runVars>>

\* line 44 and the close of line 43's with: the next chunk goes to the
\* inode of f at f's offset
SaveWrite(w) ==
    /\ wpc[w] = "write"
    /\ fs_data' = [fs_data EXCEPT ![wfd[w].ino] = WriteAt(@, wfd[w].off + 1, Chunk(w, wfd[w].off + 1))]
    /\ wfd' = [wfd EXCEPT ![w].off = @ + 1]
    /\ wpc' = [wpc EXCEPT ![w] = IF wfd[w].off + 1 = DocChunks THEN "replace" ELSE "write"]
    /\ UNCHANGED <<fs_dir, collectVars, raceVars, statusVars, taskVars, filterVars, pipeVars, mainVars, probeVars, reportVars, runVars>>

\* line 45: os.replace(tmp, path) renames whatever has the name tmp, or
\* raises FileNotFoundError
SaveReplace(w) ==
    /\ wpc[w] = "replace"
    /\ IF fs_dir[TmpPath] = NoInode
       THEN fs_dir' = fs_dir /\ wpc' = [wpc EXCEPT ![w] = "raised"]
       ELSE /\ fs_dir' = [fs_dir EXCEPT ![OutPath] = fs_dir[TmpPath], ![TmpPath] = NoInode]
            /\ wpc' = [wpc EXCEPT ![w] = "done"]
    /\ UNCHANGED <<fs_data, wfd, collectVars, raceVars, statusVars, taskVars, filterVars, pipeVars, mainVars, probeVars, reportVars, runVars>>

NextSave ==
    \/ \E w \in Requests : SaveOpen(w)
    \/ \E w \in Requests : SaveWrite(w)
    \/ \E w \in Requests : SaveReplace(w)

SpecSave == SaveInit /\ [][NextSave]_vars

\* what a reader of the output path gets
OutputContent == fs_data[fs_dir[OutPath]]

\* C26: whenever the output path exists it holds one whole document: the
\* one of an earlier run or the one of one of the runs, never a part of a
\* document and never chunks of two.
C26_AtomicPublish ==
    fs_dir[OutPath] # NoInode => \E w \in Requests \cup {0} : OutputContent = Doc(w)

-----------------------------------------------------------------------------
(* main (run_all.py): probe -> scrape -> render                            *)

\* what a file of the working directory holds: nothing (no such file), the
\* JSON an earlier run or this run wrote, or the report rendered from one
Missing == [kind |-> "missing", by |-> None]
Json(by) == [kind |-> "json", by |-> by]
Html(by) == [kind |-> "html", by |-> by]

EarlierRun == "an earlier run"
ThisRun    == "this run"

\* run_all.py line 13
JsonCandidates == <<"printers.json", "app-printers.json", "app_printers.json">>

\* app.py line 354: the default of -o, which run_all.py does not pass
\* (run_all.py line 37)
ScrapeOutput == "app-printers.json"

ConnectivityFile == "connectivity.json"
HtmlOut == "app-report.html"

FileNames ==
    {JsonCandidates[i] : i \in 1..Len(JsonCandidates)} \cup {ConnectivityFile, HtmlOut}

Exists(fs, name) == name \in DOMAIN fs /\ fs[name] # Missing

\* lines 12-15: the first of the common names that exists
RECURSIVE FirstExisting(_, _)
FirstExisting(fs, i) ==
    IF i > Len(JsonCandidates) THEN None
    ELSE IF Exists(fs, JsonCandidates[i]) THEN JsonCandidates[i]
    ELSE FirstExisting(fs, i + 1)

\* lines 8-17
pick_json_path(fs, preferred) ==
    IF preferred # None /\ Exists(fs, preferred) THEN preferred
    ELSE IF FirstExisting(fs, 1) # None THEN FirstExisting(fs, 1)
    ELSE IF preferred # None THEN preferred ELSE "printers.json"

\* the working directory before the run: each file is there, left by an
\* earlier run, or is not
RunAllInit ==
    /\ files \in [FileNames -> {Missing, Json(EarlierRun), Html(EarlierRun)}]
    /\ \A n \in FileNames : (files[n] = Html(EarlierRun)) => (n = HtmlOut)
    /\ files[HtmlOut] # Json(EarlierRun)
    /\ json_in = None
    /\ apc = "connectivity"
    /\ fs_dir = <<>> /\ fs_data = <<>> /\ wfd = <<>> /\ wpc = <<>>
    /\ html_rows = <<>> /\ html_errors = <<>> /\ hpc = "idle"
    /\ purl = "" /\ pnet = <<>> /\ tried = <<>> /\ verdict = [done |-> FALSE]
    /\ printers = <<>> /\ scen = <<>> /\ fut = <<>> /\ outcome = <<>>
    /\ yielded = {} /\ rows = <<>> /\ rowFut = <<>> /\ cpc = "idle"
    /\ results_map = <<>>
    /\ rstate = [c \in Candidates |-> "idle"]
    /\ resp = [c \in Candidates |-> NoResp]
    /\ observed = <<>> /\ last_ok = BlankPage /\ matched = FALSE
    /\ ret = BlankPage /\ rpc = "idle"
    /\ html = BlankPage /\ rec = NoRec /\ spc = "idle"
    /\ tpc = "idle" /\ reqs = <<>> /\ lret = BlankPage
    /\ conn = NoStatus /\ submitted = <<>> /\ fpc = "idle"
    /\ pstep = <<>> /\ pstate = <<>> /\ logs = <<>> /\ okflag = <<>> /\ answer = <<>>

\* line 34: connectivity.py writes its file, or exits non-zero and
\* check=True raises
RunConnectivity ==
    /\ apc = "connectivity"
    /\ \/ files' = [files EXCEPT ![ConnectivityFile] = Json(ThisRun)] /\ apc' = "scrape"
       \/ files' = files /\ apc' = "raised"
    /\ UNCHANGED <<json_in, collectVars, raceVars, statusVars, taskVars, filterVars, pipeVars, mainVars, probeVars, reportVars, saveVars>>

\* line 37: app.py writes its default output, or exits non-zero
RunScrape ==
    /\ apc = "scrape"
    /\ \/ files' = [files EXCEPT ![ScrapeOutput] = Json(ThisRun)] /\ apc' = "pick"
       \/ files' = files /\ apc' = "raised"
    /\ UNCHANGED <<json_in, collectVars, raceVars, statusVars, taskVars, filterVars, pipeVars, mainVars, probeVars, reportVars, saveVars>>

\* lines 40-44
RunPick ==
    /\ apc = "pick"
    /\ json_in' = pick_json_path(files, None)
    /\ apc' = IF Exists(files, pick_json_path(files, None)) THEN "render" ELSE "raised"
    /\ UNCHANGED <<files, collectVars, raceVars, statusVars, taskVars, filterVars, pipeVars, mainVars, probeVars, reportVars, saveVars>>

\* line 47: app-html.py renders the file json_in into the report, or exits
\* non-zero
RunRender ==
    /\ apc = "render"
    /\ \/ files' = [files EXCEPT ![HtmlOut] = Html(files[json_in].by)] /\ apc' = "rendered"
       \/ files' = files /\ apc' = "raised"
    /\ UNCHANGED <<json_in, collectVars, raceVars, statusVars, taskVars, filterVars, pipeVars, mainVars, probeVars, reportVars, saveVars>>

NextRunAll == RunConnectivity \/ RunScrape \/ RunPick \/ RunRender

SpecRunAll == RunAllInit /\ [][NextRunAll]_vars

\* C27: the report of a run is rendered from the JSON file the scrape step
\* of that same run wrote, never from a file an earlier run left behind,
\* whatever files exist in the working directory before the run.
C27_ReportIsFresh ==
    apc = "rendered" =>
        /\ json_in = ScrapeOutput
        /\ files[HtmlOut] = Html(ThisRun)

====
